---- MODULE Spec2Model ----
(***************************************************************************)
(* A model of the bbc-em emulator core: the memory map with its            *)
(* last-hardware-access markers and sideways-ROM paging, the 6502 CPU      *)
(* step and interrupt entry, the system VIA, the 6845 CRTC register file   *)
(* and scanout state machine, and the orchestrator BbcEmulator::step that  *)
(* couples them.                                                           *)
(*                                                                         *)
(* Conventions.  Option<T> is a sequence: None is <<>>, Some(x) is <<x>>.  *)
(* The 64 KiB byte array and the 16 KiB ROM images are kept sparse: a      *)
(* function from the addresses (offsets) that hold a non-zero byte to that *)
(* byte; every other cell is 0, as vec![0; MEM_SIZE] leaves it.  Stores    *)
(* keep that form canonical, so two equal memories are equal values.       *)
(***************************************************************************)
EXTENDS Integers, Sequences, FiniteSets, TLC

VARIABLES mem, cpu, via, crtc, emu, host, ghost

vars == <<mem, cpu, via, crtc, emu, host, ghost>>

(***************************************************************************)
(* Bounds of the model.                                                    *)
(***************************************************************************)
\* Number of Map operations explored by SpecMap.
MaxMapOps == 4

\* Number of VIA steps and host key events explored by SpecVia.
MaxViaOps == 3

\* Number of BbcEmulator::step calls explored by Spec.
MaxSteps == 7

\* Number of host key events explored by Spec.
MaxKeys == 1

\* Number of freely chosen instructions that follow the boot script in the
\* OS ROM.
BodyLen == 2

\* Number of Cpu::step and Cpu::interrupt_request calls explored by SpecCpu.
MaxCpuOps == 2

\* Number of System::keydown calls explored by SpecScan: one more than the
\* keyboard ring holds.
MaxScanKeys == 17

\* Number of System::step calls explored by SpecScan.
MaxScanWrites == 2

\* Number of Crtc6845::step calls explored by SpecCrtc: enough to program the
\* three registers that start the scanout and to reprogram one of them.
MaxCrtcOps == 7

\* Number of push_stack / pop_stack calls explored by SpecStack.
MaxStackOps == 2

\* Number of place_rom_at calls explored by SpecRom.
MaxRomOps == 2

\* Longest ROM placed by SpecRom, in bytes.
MaxRomLen == 3

\* Number of decode_instruction calls made on one stream by SpecDecode.
MaxDecodes == 4

MaxScanCycles == 17

MaxTimerSteps == 5

MaxHandlerOps == 4

MaxCommands == 3

MaxStepArg == 2

(***************************************************************************)
(* Machine arithmetic.                                                     *)
(***************************************************************************)
None == <<>>

Some(x) == <<x>>

IsSome(o) == o # <<>>

Unwrap(o) == o[1]

RECURSIVE BitAnd(_, _)
BitAnd(a, b) ==
    IF a = 0 \/ b = 0 THEN 0
    ELSE (a % 2) * (b % 2) + 2 * BitAnd(a \div 2, b \div 2)

RECURSIVE BitOr(_, _)
BitOr(a, b) ==
    IF a = 0 THEN b
    ELSE IF b = 0 THEN a
    ELSE (IF a % 2 = 1 \/ b % 2 = 1 THEN 1 ELSE 0) + 2 * BitOr(a \div 2, b \div 2)

RECURSIVE BitXor(_, _)
BitXor(a, b) ==
    IF a = 0 THEN b
    ELSE IF b = 0 THEN a
    ELSE ((a + b) % 2) + 2 * BitXor(a \div 2, b \div 2)

\* !v on a u8
BitNot8(v) == 255 - v

\* bit_is_set!(field, bit) on a u8
bit_is_set(field, bit) == (field \div (2 ^ bit)) % 2 = 1

(***************************************************************************)
(* memory::Map                                                             *)
(***************************************************************************)
MEM_SIZE == 65536

\* 0xfe30
PAGED_ROM_REGISTER == 65072

\* 0x8000
PAGED_ROM_START == 32768

\* 0xc000
PAGED_ROM_END == 49152

\* A std::ops::Range<usize>
Range(s, e) == [start |-> s, end |-> e]

InPagedSlot(a) == a >= PAGED_ROM_START /\ a < PAGED_ROM_END

\* self.bytes[loc]
MemByte(bytes, loc) == IF loc \in DOMAIN bytes THEN bytes[loc] ELSE 0

\* self.bytes[loc] = val
Store(bytes, loc, val) ==
    IF val = 0
    THEN [a \in (DOMAIN bytes) \ {loc} |-> bytes[a]]
    ELSE [a \in (DOMAIN bytes) \cup {loc} |-> IF a = loc THEN val ELSE bytes[a]]

\* The bytes of bytes[PAGED_ROM_MEMORY_RANGE], as an image indexed from 0.
SlotImage(bytes) ==
    [o \in {a - PAGED_ROM_START : a \in {x \in DOMAIN bytes : InPagedSlot(x)}}
        |-> bytes[o + PAGED_ROM_START]]

\* io::copy of a 16 KiB image over bytes[PAGED_ROM_MEMORY_RANGE].
InstallImage(bytes, rom) ==
    [a \in {x \in DOMAIN bytes : ~InPagedSlot(x)}
            \cup {o + PAGED_ROM_START : o \in DOMAIN rom}
        |-> IF InPagedSlot(a) THEN rom[a - PAGED_ROM_START] ELSE bytes[a]]

MapNew ==
    [bytes |-> <<>>,
     last_hw_write |-> None,
     last_hw_read |-> None,
     hw_ranges |-> <<>>,
     paged_roms |-> <<>>,
     current_paged_rom |-> None]

\* ROM n (0-based) of the Vec<Vec<u8>>
PagedRom(m, n) == m.paged_roms[n + 1]

value_within_range(val, range) == val >= range.start /\ val <= range.end

InSomeHwRange(m, loc) ==
    \E i \in DOMAIN m.hw_ranges : value_within_range(loc, m.hw_ranges[i])

switch_paged_rom_to(m, num) ==
    IF num >= Len(m.paged_roms)
    THEN m
    ELSE LET saved ==
                 IF IsSome(m.current_paged_rom)
                 THEN [m EXCEPT !.paged_roms[Unwrap(m.current_paged_rom) + 1] =
                                    SlotImage(m.bytes)]
                 ELSE m
         IN  [saved EXCEPT !.bytes = InstallImage(saved.bytes, PagedRom(saved, num))]

MapWrite(m, loc, val) ==
    LET m1 == IF loc = PAGED_ROM_REGISTER THEN switch_paged_rom_to(m, val) ELSE m
        m2 == [m1 EXCEPT !.bytes = Store(m1.bytes, loc, val)]
    IN  [m2 EXCEPT !.last_hw_write =
                       IF InSomeHwRange(m2, loc) THEN Some(<<loc, val>>) ELSE None]

\* Map::read returns the byte; the state it leaves behind is MapRead.
MapReadValue(m, loc) == MemByte(m.bytes, loc)

MapRead(m, loc) ==
    [m EXCEPT !.last_hw_read = IF InSomeHwRange(m, loc) THEN Some(loc) ELSE None]

\* A clear that leaves both markers as they are.
keep_last_hw_access(m) == m

clear_last_hw_access(m) ==
    [m EXCEPT !.last_hw_read = None, !.last_hw_write = None]

(***************************************************************************)
(* via::peripheral_port::PeripheralPort                                    *)
(***************************************************************************)
PortDefault == [io |-> 0, ddr |-> 0]

PortRead(p) == BitAnd(p.io, BitNot8(p.ddr))

PortWrite(p, val) ==
    [p EXCEPT !.io = BitOr(BitAnd(val, p.ddr), BitNot8(p.ddr))]

(***************************************************************************)
(* via::interrupts::Interrupts                                             *)
(***************************************************************************)
Keyboard == 0

VerticalSync == 1

Timer2 == 5

Timer1 == 6

InterruptTypes == {Keyboard, VerticalSync, Timer2, Timer1}

InterruptsDefault == [flags |-> 0, enabled |-> 0, signalled |-> 0]

\* Interrupts::enabled()
EnabledOf(i) == BitOr(128, BitAnd(127, i.enabled))

\* The flags field as stored, bit 7 not recomputed.
FlagsOfRaw(i) == i.flags

\* Interrupts::flags()
FlagsOf(i) ==
    IF BitAnd(i.flags, 127) > 0 THEN BitOr(128, BitAnd(i.flags, 127)) ELSE 0

\* The signalled mask as stored, not masked by the enable register.
DrainMaskUnmasked(i) == i.signalled

\* The value Interrupts::drain_signalled returns.
DrainMask(i) == BitAnd(i.signalled, EnabledOf(i))

\* The state Interrupts::drain_signalled leaves.
drain_signalled(i) == [i EXCEPT !.signalled = 0]

signal_one(i, t) ==
    LET s == BitOr(i.signalled, 2 ^ BitAnd(t, 7))
    IN  [i EXCEPT !.signalled = s, !.flags = BitOr(i.flags, s)]

\* A set_enabled that sets the bits whatever bit 7 of e is.
set_enabled_only_sets(i, e) ==
    [i EXCEPT !.enabled = BitOr(i.enabled, BitOr(BitAnd(e, 127), 128))]

set_enabled(i, e) ==
    IF BitAnd(e, 128) = 128
    THEN [i EXCEPT !.enabled = BitOr(i.enabled, BitOr(BitAnd(e, 127), 128))]
    ELSE [i EXCEPT !.enabled =
                       BitAnd(BitAnd(i.enabled, BitNot8(BitAnd(e, 127))), 127)]

\* A clear_flags that clears nothing.
clear_flags_ignored(i, f) == i

clear_flags(i, f) ==
    LET fl == BitAnd(i.flags, BitNot8(BitAnd(f, 127)))
    IN  [i EXCEPT !.flags = IF BitAnd(fl, 127) # 0 THEN BitOr(fl, 128) ELSE fl]

\* Interrupts::clear: the listed types folded into a mask, then clear_flags.
RECURSIVE TypeMask(_)
TypeMask(ts) ==
    IF ts = <<>> THEN 0 ELSE BitOr(2 ^ Head(ts), TypeMask(Tail(ts)))

clear_types(i, ts) == clear_flags(i, TypeMask(ts))

\* InterruptIterator: positions 0..6 of the mask, yielding at 0, 1, 5 and 6.
IterCount(f) ==
    Cardinality({p \in 0..6 : bit_is_set(f, p) /\ p \in InterruptTypes})

(***************************************************************************)
(* via::registers                                                          *)
(***************************************************************************)
KEY_MAP ==
    { <<10, <<4, 7>>>>, <<11, <<4, 1>>>>, <<12, <<6, 4>>>>, <<13, <<3, 2>>>>,
      <<14, <<2, 2>>>>, <<15, <<4, 3>>>>, <<16, <<5, 3>>>>, <<17, <<5, 4>>>>,
      <<18, <<2, 6>>>>, <<19, <<4, 5>>>>, <<20, <<4, 6>>>>, <<21, <<5, 6>>>>,
      <<22, <<6, 5>>>>, <<23, <<5, 5>>>>, <<24, <<3, 6>>>>, <<25, <<3, 7>>>>,
      <<26, <<1, 0>>>>, <<27, <<3, 3>>>>, <<28, <<5, 1>>>>, <<29, <<2, 3>>>>,
      <<30, <<3, 5>>>>, <<31, <<6, 3>>>>, <<32, <<2, 1>>>>, <<33, <<4, 2>>>>,
      <<34, <<4, 4>>>>, <<35, <<6, 1>>>> }

KeyboardBufferDefault ==
    [buffer |-> [n \in 0..15 |-> 0], next |-> 0, write_enabled |-> FALSE]

KbKeyDown(kb, keynum) ==
    [kb EXCEPT !.buffer[kb.next] = keynum, !.next = BitAnd(kb.next + 1, 15)]

KbClear(kb) == [kb EXCEPT !.buffer = [n \in 0..15 |-> 0], !.next = 0]

KbLen(kb) == kb.next

is_emulated_key_down(kb, rowcol) ==
    LET int_keynum == <<BitAnd(rowcol \div 16, 7), BitAnd(rowcol, 15)>>
    IN  \E k \in KEY_MAP :
            /\ \E n \in 0..(kb.next - 1) : k[1] = kb.buffer[n]
            /\ int_keynum = k[2]

KEYBOARD_IC_LATCH == 3

RegistersDefault ==
    [pa1 |-> PortDefault,
     pb |-> PortDefault,
     interrupts |-> InterruptsDefault,
     pa2 |-> PortDefault,
     keyboard_buffer |-> KeyboardBufferDefault,
     latches |-> [n \in 0..7 |-> FALSE]]

is_keyboard_write_enabled(r) == r.latches[KEYBOARD_IC_LATCH]

write_port_a1_io(r, val) == r

write_port_a2_io(r, val) ==
    LET r1 == [r EXCEPT !.pa2 = PortWrite(r.pa2, val)]
        r2 == IF KbLen(r1.keyboard_buffer) > 0
              THEN [r1 EXCEPT !.interrupts = signal_one(r1.interrupts, Keyboard)]
              ELSE r1
    IN  IF /\ ~is_keyboard_write_enabled(r2)
           /\ ~is_emulated_key_down(r2.keyboard_buffer, r2.pa2.io)
        THEN [r2 EXCEPT !.pa2.io = BitAnd(val, 127)]
        ELSE r2

\* match (val & 0x03, bit_is_set!(val, 3)): the four arms cover every val & 0x03.
write_port_b_io(r, val) ==
    [r EXCEPT !.pb = PortWrite(r.pb, val),
              !.latches[BitAnd(val, 3)] = bit_is_set(val, 3)]

set_port_a_ddr(r, val) == [r EXCEPT !.pa1.ddr = val, !.pa2.ddr = val]

set_port_b_ddr(r, val) == [r EXCEPT !.pb.ddr = val]

\* Registers::write_to: the bytes it stores, by offset into the window.
RegisterImage(r) ==
    (0 :> PortRead(r.pb)) @@ (2 :> r.pb.ddr) @@ (1 :> PortRead(r.pa1))
        @@ (3 :> r.pa1.ddr) @@ (13 :> FlagsOf(r.interrupts))
        @@ (14 :> EnabledOf(r.interrupts)) @@ (15 :> PortRead(r.pa2))

RegKeyDown(r, keynum) ==
    [r EXCEPT !.keyboard_buffer = KbKeyDown(r.keyboard_buffer, keynum),
              !.interrupts = signal_one(r.interrupts, Keyboard)]

RegClearKeyboardBuffer(r) ==
    [r EXCEPT !.keyboard_buffer = KbClear(r.keyboard_buffer)]

(***************************************************************************)
(* via::system::System                                                     *)
(***************************************************************************)
MHZ == 2000000

CYCLES_PER_MS == MHZ \div 1000

TIMER_FREQ == CYCLES_PER_MS * 200

\* 0xfe40
SYSTEM_VIA_REG_START == 65088

\* 0xfe50
SYSTEM_VIA_REG_END == 65104

IFR_REGISTER == SYSTEM_VIA_REG_START + 13

IER_REGISTER == SYSTEM_VIA_REG_START + 14

PA_DDR_REG == SYSTEM_VIA_REG_START + 3

PB_DDR_REG == SYSTEM_VIA_REG_START + 2

PA1_IO_REG == SYSTEM_VIA_REG_START + 1

PA2_IO_REG == SYSTEM_VIA_REG_START + 15

PB_IO_REG == SYSTEM_VIA_REG_START

SystemNew ==
    [cycles_elapsed |-> 0,
     timer_count |-> 0,
     kb_write |-> TRUE,
     registers |-> RegistersDefault]

\* write is the Option<(u16, u8)> read from the memory map.
process_reads_and_writes(v, write) ==
    IF ~IsSome(write) THEN v
    ELSE
    LET addr == Unwrap(write)[1]
        val == Unwrap(write)[2]
        r == v.registers
    IN  CASE addr = PB_IO_REG ->
                 LET v1 == IF BitAnd(val, 7) = 3
                           THEN [v EXCEPT !.kb_write = (BitAnd(val, 8) = 8)]
                           ELSE v
                     r1 == write_port_b_io(r, val)
                 IN  [v1 EXCEPT !.registers =
                          [r1 EXCEPT !.interrupts = clear_flags(r1.interrupts, 24)]]
          [] addr = PA1_IO_REG ->
                 LET r1 == write_port_a1_io(r, val)
                 IN  [v EXCEPT !.registers =
                          [r1 EXCEPT !.interrupts =
                               clear_types(r1.interrupts, <<Keyboard, VerticalSync>>)]]
          [] addr = PA2_IO_REG ->
                 LET r1 == write_port_a2_io(r, val)
                 IN  [v EXCEPT !.registers =
                          [r1 EXCEPT !.interrupts =
                               clear_types(r1.interrupts, <<Keyboard, VerticalSync>>)]]
          [] addr = PB_DDR_REG -> [v EXCEPT !.registers = set_port_b_ddr(r, val)]
          [] addr = PA_DDR_REG -> [v EXCEPT !.registers = set_port_a_ddr(r, val)]
          [] addr = IFR_REGISTER ->
                 [v EXCEPT !.registers.interrupts = clear_flags(r.interrupts, val)]
          [] addr = IER_REGISTER ->
                 [v EXCEPT !.registers.interrupts = set_enabled(r.interrupts, val)]
          [] OTHER -> v

\* A timer that restarts from zero when it expires.
TimerExpiryReset(v) ==
    IF v.timer_count >= TIMER_FREQ
    THEN [v EXCEPT !.registers.interrupts =
                       signal_one(signal_one(v.registers.interrupts, Timer1),
                                  VerticalSync),
                   !.timer_count = 0]
    ELSE v

\* The timer part of System::step (lines 131-135).
TimerExpiry(v) ==
    IF v.timer_count >= TIMER_FREQ
    THEN [v EXCEPT !.registers.interrupts =
                       signal_one(signal_one(v.registers.interrupts, Timer1),
                                  VerticalSync),
                   !.timer_count = v.timer_count - TIMER_FREQ]
    ELSE v

\* mem.region_mut(SYSTEM_VIA_REG_RANGE) overwritten by Registers::write_to: the
\* bytes change, the access markers do not.
RECURSIVE StoreAll(_, _, _, _)
StoreAll(bytes, base, image, offs) ==
    IF offs = {} THEN bytes
    ELSE LET o == CHOOSE x \in offs : TRUE
         IN  StoreAll(Store(bytes, base + o, image[o]), base, image, offs \ {o})

\* A write-back that ends with a Map::write of the IFR byte, so that the write
\* marker names 0xfe4d afterwards.
ViaWriteBackThroughMap(m, r) ==
    MapWrite([m EXCEPT !.bytes = StoreAll(m.bytes, SYSTEM_VIA_REG_START,
                                          RegisterImage(r), DOMAIN RegisterImage(r))],
             IFR_REGISTER, RegisterImage(r)[13])

ViaWriteBack(m, r) ==
    [m EXCEPT !.bytes = StoreAll(m.bytes, SYSTEM_VIA_REG_START, RegisterImage(r),
                                 DOMAIN RegisterImage(r))]

\* System::step.  The result carries the new VIA, the new memory and whether
\* the interrupt callback was invoked.  (cycles_elapsed is a u64 that wraps at
\* 2^64, far beyond the cycle counts explored here.)
ViaStep(v, m, cycles) ==
    LET v1 == [v EXCEPT !.cycles_elapsed = v.cycles_elapsed + cycles,
                        !.timer_count = v.timer_count + cycles]
        v2 == process_reads_and_writes(v1, m.last_hw_write)
        v3 == TimerExpiry(v2)
        signalled == DrainMask(v3.registers.interrupts)
        v4 == [v3 EXCEPT !.registers.interrupts =
                             drain_signalled(v3.registers.interrupts)]
    IN  [via |-> v4,
         mem |-> ViaWriteBack(m, v4.registers),
         irq |-> IterCount(signalled) > 0]

SystemKeydown(v, keynum) == [v EXCEPT !.registers = RegKeyDown(v.registers, keynum)]

SystemClearKeyboardBuffer(v) ==
    [v EXCEPT !.registers = RegClearKeyboardBuffer(v.registers)]

(***************************************************************************)
(* video::Crtc6845                                                         *)
(*                                                                         *)
(* Arithmetic that can overflow its Rust type panics in a build with       *)
(* overflow checks and wraps in a build without; `build` names which one   *)
(* is running.  The framebuffer belongs to the host and the glyph table to *)
(* the glyphs crate: what render_glyph / render_char store there is not    *)
(* part of this state.                                                     *)
(***************************************************************************)
Builds == {"debug", "release"}

TOTAL_HORIZ_DISP == 1

TOTAL_VERT_DISP == 6

SCANLINES_PER_CHAR == 9

SCREEN_START_HI == 12

SCREEN_START_LO == 13

\* 0xfe00
CRTC_ADDR_REG == 65024

\* 0xfe01
CRTC_DATA_REG == 65025

\* 0xfe20
ULA_CONTROL_REG == 65056

\* 0x8000
VIDEO_MEM_END == 32768

VState(tag, a, l, c, sl) == [tag |-> tag, a |-> a, l |-> l, c |-> c, sl |-> sl]

NotInitialized == VState("NotInitialized", 0, 0, 0, 0)

NewFrame(start_addr) == VState("NewFrame", start_addr, 0, 0, 0)

DisplayingLine(line_addr, l, c, sl) == VState("DisplayingLine", line_addr, l, c, sl)

EndOfLine(line_addr, lines) == VState("EndOfLine", line_addr, lines, 0, 0)

CrtcNew ==
    [registers |-> [n \in 0..17 |-> 0],
     selected_reg |-> None,
     state |-> NotInitialized,
     video_control_reg |-> 0]

\* A mode test that reads bit 0 of the control register.
is_teletext_bit0(c) == bit_is_set(c.video_control_reg, 0)

is_teletext(c) == bit_is_set(c.video_control_reg, 1)

\* A checked result: ok is FALSE where a checked build panics on overflow.
Checked(val, limit, build) ==
    [ok |-> (val >= 0 /\ val < limit) \/ build = "release", val |-> val % limit]

\* calc_start_addr(hi, lo, teletext)
calc_start_addr(hi, lo, teletext, build) ==
    IF teletext
    THEN LET h == Checked(BitXor(hi, 32) + 116, 256, build)
         IN  [ok |-> h.ok, val |-> h.val * 256 + lo]
    ELSE [ok |-> TRUE, val |-> ((hi * 256 + lo) * 8) % 65536]

\* The match on mem.last_hw_write() that opens Crtc6845::step.  ok is FALSE
\* where selected_reg.unwrap() or the index into registers panics.
\* A reaction in which a write to 0xfe01 stores to the register after the
\* selected one.
CrtcReactNextRegister(c, write) ==
    IF IsSome(write) /\ Unwrap(write)[1] = CRTC_DATA_REG /\ IsSome(c.selected_reg)
    THEN [ok |-> TRUE,
          crtc |-> [c EXCEPT !.registers[(Unwrap(c.selected_reg) + 1) % 18] =
                                 Unwrap(write)[2]]]
    ELSE [ok |-> TRUE, crtc |-> c]

CrtcReact(c, write) ==
    IF ~IsSome(write) THEN [ok |-> TRUE, crtc |-> c]
    ELSE
    LET addr == Unwrap(write)[1]
        val == Unwrap(write)[2]
    IN  CASE addr = CRTC_ADDR_REG ->
                 [ok |-> TRUE, crtc |-> [c EXCEPT !.selected_reg = Some(val)]]
          [] addr = CRTC_DATA_REG ->
                 IF IsSome(c.selected_reg) /\ Unwrap(c.selected_reg) < 18
                 THEN [ok |-> TRUE,
                       crtc |-> [c EXCEPT !.registers[Unwrap(c.selected_reg)] = val]]
                 ELSE [ok |-> FALSE, crtc |-> c]
          [] addr = ULA_CONTROL_REG ->
                 [ok |-> TRUE, crtc |-> [c EXCEPT !.video_control_reg = val]]
          [] OTHER -> [ok |-> TRUE, crtc |-> c]

\* One pass of `loop { match self.state ... }`: the transitions taken in one
\* cycle, up to the break.  out is "ok" (a break was reached), "panic", or
\* "hang": in DisplayingLine with horizontal_displayed = 0 the test c >= 0
\* always succeeds and the loop never reaches a break (outside teletext mode
\* line_addr + 1 overflows its u16 on the way, which panics where overflow is
\* checked).
RECURSIVE CrtcCycle(_, _)
CrtcCycle(c, build) ==
    LET H == c.registers[TOTAL_HORIZ_DISP]
        V == c.registers[TOTAL_VERT_DISP]
        S == c.registers[SCANLINES_PER_CHAR]
        st == c.state
        start == calc_start_addr(c.registers[SCREEN_START_HI],
                                 c.registers[SCREEN_START_LO], is_teletext(c), build)
    IN  CASE st.tag = "NotInitialized" ->
                 IF ~start.ok THEN [out |-> "panic", crtc |-> c]
                 ELSE IF H = 0 \/ V = 0 \/ start.val = 0
                 THEN [out |-> "ok", crtc |-> c]
                 ELSE CrtcCycle([c EXCEPT !.state = NewFrame(start.val)], build)
          [] st.tag = "NewFrame" ->
                 CrtcCycle([c EXCEPT !.state = DisplayingLine(st.a, 0, 0, 0)], build)
          [] st.tag = "DisplayingLine" ->
                 IF H = 0
                 THEN [out |-> IF ~is_teletext(c) /\ build = "debug"
                               THEN "panic" ELSE "hang",
                       crtc |-> c]
                 ELSE IF st.c >= H
                 THEN IF is_teletext(c)
                      THEN CrtcCycle([c EXCEPT !.state =
                               DisplayingLine(st.a, st.l, 0, st.sl + 1)], build)
                      ELSE LET a1 == Checked(st.a + 1, 65536, build)
                           IN  IF ~a1.ok THEN [out |-> "panic", crtc |-> c]
                               ELSE CrtcCycle([c EXCEPT !.state =
                                        DisplayingLine(a1.val, st.l, 0, st.sl + 1)], build)
                 ELSE IF st.sl >= S + 1
                 THEN LET next == IF is_teletext(c)
                                  THEN Checked(st.a + H, 65536, build)
                                  ELSE Checked(st.a + (H - 1) * 8, 65536, build)
                      IN  IF ~next.ok THEN [out |-> "panic", crtc |-> c]
                          ELSE CrtcCycle([c EXCEPT !.state =
                                   EndOfLine(next.val, st.l + 1)], build)
                 ELSE LET c1 == [c EXCEPT !.state =
                                     DisplayingLine(st.a, st.l, st.c + 1, st.sl)]
                          idx == IF is_teletext(c) THEN st.c ELSE st.c * 8
                      IN  IF st.a < VIDEO_MEM_END /\ idx >= VIDEO_MEM_END - st.a
                          THEN [out |-> "panic", crtc |-> c1]
                          ELSE [out |-> "ok", crtc |-> c1]
          [] st.tag = "EndOfLine" ->
                 IF st.l >= V
                 THEN IF ~start.ok THEN [out |-> "panic", crtc |-> c]
                      ELSE CrtcCycle([c EXCEPT !.state = NewFrame(start.val)], build)
                 ELSE CrtcCycle([c EXCEPT !.state =
                          DisplayingLine(st.a, st.l, 0, 0)], build)

\* for _ in 0..cycles { loop { ... } }
RECURSIVE CrtcScan(_, _, _)
CrtcScan(c, cycles, build) ==
    IF cycles = 0 THEN [out |-> "ok", crtc |-> c]
    ELSE LET r == CrtcCycle(c, build)
         IN  IF r.out # "ok" THEN r ELSE CrtcScan(r.crtc, cycles - 1, build)

\* Crtc6845::step
CrtcStep(c, m, cycles, build) ==
    LET r == CrtcReact(c, m.last_hw_write)
    IN  IF ~r.ok THEN [out |-> "panic", crtc |-> c]
        ELSE CrtcScan(r.crtc, cycles, build)

(***************************************************************************)
(* cpu: decode                                                             *)
(***************************************************************************)
\* The match of decode_instruction: opcode byte -> <<OpCode, Addressing,
\* base cycles>>, and <<>> for the `_ => None` arm.
OpInfo(opcode) ==
    CASE opcode = 105 -> <<"Adc", "Immediate", 2>>
      [] opcode = 101 -> <<"Adc", "ZeroPage", 3>>
      [] opcode = 117 -> <<"Adc", "ZeroPageX", 4>>
      [] opcode = 109 -> <<"Adc", "Absolute", 4>>
      [] opcode = 125 -> <<"Adc", "AbsoluteX", 4>>
      [] opcode = 121 -> <<"Adc", "AbsoluteY", 4>>
      [] opcode = 97 -> <<"Adc", "IndirectX", 6>>
      [] opcode = 113 -> <<"Adc", "IndirectY", 5>>
      [] opcode = 41 -> <<"And", "Immediate", 2>>
      [] opcode = 37 -> <<"And", "ZeroPage", 3>>
      [] opcode = 53 -> <<"And", "ZeroPageX", 4>>
      [] opcode = 45 -> <<"And", "Absolute", 4>>
      [] opcode = 61 -> <<"And", "AbsoluteX", 4>>
      [] opcode = 57 -> <<"And", "AbsoluteY", 4>>
      [] opcode = 33 -> <<"And", "IndirectX", 6>>
      [] opcode = 49 -> <<"And", "IndirectY", 5>>
      [] opcode = 10 -> <<"Asl", "Accumulator", 2>>
      [] opcode = 6 -> <<"Asl", "ZeroPage", 5>>
      [] opcode = 22 -> <<"Asl", "ZeroPageX", 6>>
      [] opcode = 14 -> <<"Asl", "Absolute", 6>>
      [] opcode = 30 -> <<"Asl", "AbsoluteX", 7>>
      [] opcode = 144 -> <<"Bcc", "Relative", 2>>
      [] opcode = 176 -> <<"Bcs", "Relative", 2>>
      [] opcode = 240 -> <<"Beq", "Relative", 2>>
      [] opcode = 48 -> <<"Bmi", "Relative", 2>>
      [] opcode = 208 -> <<"Bne", "Relative", 2>>
      [] opcode = 16 -> <<"Bpl", "Relative", 2>>
      [] opcode = 80 -> <<"Bvc", "Relative", 2>>
      [] opcode = 112 -> <<"Bvs", "Relative", 2>>
      [] opcode = 36 -> <<"Bit", "ZeroPage", 3>>
      [] opcode = 44 -> <<"Bit", "Absolute", 4>>
      [] opcode = 0 -> <<"Brk", "Implied", 7>>
      [] opcode = 24 -> <<"Clc", "Implied", 2>>
      [] opcode = 216 -> <<"Cld", "Implied", 2>>
      [] opcode = 88 -> <<"Cli", "Implied", 2>>
      [] opcode = 184 -> <<"Clv", "Implied", 2>>
      [] opcode = 201 -> <<"Cmp", "Immediate", 2>>
      [] opcode = 197 -> <<"Cmp", "ZeroPage", 2>>
      [] opcode = 213 -> <<"Cmp", "ZeroPageX", 4>>
      [] opcode = 205 -> <<"Cmp", "Absolute", 4>>
      [] opcode = 221 -> <<"Cmp", "AbsoluteX", 4>>
      [] opcode = 217 -> <<"Cmp", "AbsoluteY", 4>>
      [] opcode = 193 -> <<"Cmp", "IndirectX", 6>>
      [] opcode = 209 -> <<"Cmp", "IndirectY", 5>>
      [] opcode = 224 -> <<"Cpx", "Immediate", 2>>
      [] opcode = 228 -> <<"Cpx", "ZeroPage", 3>>
      [] opcode = 236 -> <<"Cpx", "Absolute", 4>>
      [] opcode = 192 -> <<"Cpy", "Immediate", 2>>
      [] opcode = 196 -> <<"Cpy", "ZeroPage", 3>>
      [] opcode = 204 -> <<"Cpy", "Absolute", 4>>
      [] opcode = 198 -> <<"Dec", "ZeroPage", 5>>
      [] opcode = 214 -> <<"Dec", "ZeroPageX", 6>>
      [] opcode = 206 -> <<"Dec", "Absolute", 3>>
      [] opcode = 222 -> <<"Dec", "AbsoluteX", 7>>
      [] opcode = 202 -> <<"Dex", "Implied", 2>>
      [] opcode = 136 -> <<"Dey", "Implied", 2>>
      [] opcode = 73 -> <<"Eor", "Immediate", 2>>
      [] opcode = 69 -> <<"Eor", "ZeroPage", 3>>
      [] opcode = 85 -> <<"Eor", "ZeroPageX", 4>>
      [] opcode = 77 -> <<"Eor", "Absolute", 4>>
      [] opcode = 93 -> <<"Eor", "AbsoluteX", 4>>
      [] opcode = 89 -> <<"Eor", "AbsoluteY", 4>>
      [] opcode = 65 -> <<"Eor", "IndirectX", 6>>
      [] opcode = 81 -> <<"Eor", "IndirectY", 5>>
      [] opcode = 230 -> <<"Inc", "ZeroPage", 5>>
      [] opcode = 246 -> <<"Inc", "ZeroPageX", 6>>
      [] opcode = 238 -> <<"Inc", "Absolute", 6>>
      [] opcode = 254 -> <<"Inc", "AbsoluteX", 7>>
      [] opcode = 232 -> <<"Inx", "Implied", 2>>
      [] opcode = 200 -> <<"Iny", "Implied", 2>>
      [] opcode = 76 -> <<"Jmp", "Absolute", 3>>
      [] opcode = 108 -> <<"Jmp", "Indirect", 5>>
      [] opcode = 32 -> <<"Jsr", "Absolute", 6>>
      [] opcode = 169 -> <<"Lda", "Immediate", 2>>
      [] opcode = 165 -> <<"Lda", "ZeroPage", 3>>
      [] opcode = 181 -> <<"Lda", "ZeroPageX", 4>>
      [] opcode = 173 -> <<"Lda", "Absolute", 4>>
      [] opcode = 189 -> <<"Lda", "AbsoluteX", 4>>
      [] opcode = 185 -> <<"Lda", "AbsoluteY", 4>>
      [] opcode = 161 -> <<"Lda", "IndirectX", 6>>
      [] opcode = 177 -> <<"Lda", "IndirectY", 5>>
      [] opcode = 162 -> <<"Ldx", "Immediate", 2>>
      [] opcode = 166 -> <<"Ldx", "ZeroPage", 3>>
      [] opcode = 182 -> <<"Ldx", "ZeroPageY", 4>>
      [] opcode = 174 -> <<"Ldx", "Absolute", 4>>
      [] opcode = 190 -> <<"Ldx", "AbsoluteY", 4>>
      [] opcode = 160 -> <<"Ldy", "Immediate", 2>>
      [] opcode = 164 -> <<"Ldy", "ZeroPage", 3>>
      [] opcode = 180 -> <<"Ldy", "ZeroPageX", 4>>
      [] opcode = 172 -> <<"Ldy", "Absolute", 4>>
      [] opcode = 188 -> <<"Ldy", "AbsoluteX", 4>>
      [] opcode = 74 -> <<"Lsr", "Accumulator", 2>>
      [] opcode = 70 -> <<"Lsr", "ZeroPage", 5>>
      [] opcode = 86 -> <<"Lsr", "ZeroPageX", 6>>
      [] opcode = 78 -> <<"Lsr", "Absolute", 6>>
      [] opcode = 94 -> <<"Lsr", "AbsoluteX", 7>>
      [] opcode = 234 -> <<"Nop", "Implied", 2>>
      [] opcode = 9 -> <<"Ora", "Immediate", 2>>
      [] opcode = 5 -> <<"Ora", "ZeroPage", 3>>
      [] opcode = 21 -> <<"Ora", "ZeroPageX", 4>>
      [] opcode = 13 -> <<"Ora", "Absolute", 4>>
      [] opcode = 29 -> <<"Ora", "AbsoluteX", 4>>
      [] opcode = 25 -> <<"Ora", "AbsoluteY", 4>>
      [] opcode = 1 -> <<"Ora", "IndirectX", 6>>
      [] opcode = 17 -> <<"Ora", "IndirectY", 5>>
      [] opcode = 72 -> <<"Pha", "Implied", 3>>
      [] opcode = 8 -> <<"Php", "Implied", 3>>
      [] opcode = 104 -> <<"Pla", "Implied", 4>>
      [] opcode = 40 -> <<"Plp", "Implied", 4>>
      [] opcode = 42 -> <<"Rol", "Accumulator", 2>>
      [] opcode = 38 -> <<"Rol", "ZeroPage", 5>>
      [] opcode = 54 -> <<"Rol", "ZeroPageX", 6>>
      [] opcode = 46 -> <<"Rol", "Absolute", 6>>
      [] opcode = 62 -> <<"Rol", "AbsoluteX", 7>>
      [] opcode = 106 -> <<"Ror", "Accumulator", 2>>
      [] opcode = 102 -> <<"Ror", "ZeroPage", 5>>
      [] opcode = 118 -> <<"Ror", "ZeroPageX", 6>>
      [] opcode = 110 -> <<"Ror", "Absolute", 6>>
      [] opcode = 126 -> <<"Ror", "AbsoluteX", 7>>
      [] opcode = 64 -> <<"Rti", "Implied", 6>>
      [] opcode = 96 -> <<"Rts", "Implied", 6>>
      [] opcode = 233 -> <<"Sbc", "Immediate", 2>>
      [] opcode = 229 -> <<"Sbc", "ZeroPage", 3>>
      [] opcode = 245 -> <<"Sbc", "ZeroPageX", 4>>
      [] opcode = 237 -> <<"Sbc", "Absolute", 4>>
      [] opcode = 253 -> <<"Sbc", "AbsoluteX", 4>>
      [] opcode = 249 -> <<"Sbc", "AbsoluteY", 4>>
      [] opcode = 225 -> <<"Sbc", "IndirectX", 6>>
      [] opcode = 241 -> <<"Sbc", "IndirectY", 5>>
      [] opcode = 56 -> <<"Sec", "Implied", 2>>
      [] opcode = 248 -> <<"Sed", "Implied", 2>>
      [] opcode = 120 -> <<"Sei", "Implied", 2>>
      [] opcode = 133 -> <<"Sta", "ZeroPage", 3>>
      [] opcode = 149 -> <<"Sta", "ZeroPageX", 4>>
      [] opcode = 141 -> <<"Sta", "Absolute", 4>>
      [] opcode = 157 -> <<"Sta", "AbsoluteX", 5>>
      [] opcode = 153 -> <<"Sta", "AbsoluteY", 5>>
      [] opcode = 129 -> <<"Sta", "IndirectX", 6>>
      [] opcode = 145 -> <<"Sta", "IndirectY", 6>>
      [] opcode = 134 -> <<"Stx", "ZeroPage", 3>>
      [] opcode = 150 -> <<"Stx", "ZeroPageY", 4>>
      [] opcode = 142 -> <<"Stx", "Absolute", 4>>
      [] opcode = 132 -> <<"Sty", "ZeroPage", 3>>
      [] opcode = 148 -> <<"Sty", "ZeroPageX", 4>>
      [] opcode = 140 -> <<"Sty", "Absolute", 4>>
      [] opcode = 170 -> <<"Tax", "Implied", 2>>
      [] opcode = 168 -> <<"Tay", "Implied", 2>>
      [] opcode = 186 -> <<"Tsx", "Implied", 2>>
      [] opcode = 138 -> <<"Txa", "Implied", 2>>
      [] opcode = 154 -> <<"Txs", "Implied", 2>>
      [] opcode = 152 -> <<"Tya", "Implied", 2>>
      [] OTHER -> <<>>

\* An operand size that takes one byte for Indirect.
OperandSizeShortIndirect(mode) ==
    CASE mode \in {"Implied", "Accumulator"} -> 0
      [] mode \in {"Absolute", "AbsoluteX", "AbsoluteY"} -> 2
      [] OTHER -> 1

\* Bytes the addressing mode's decode_u8 / decode_i8 / decode_u16 consumes.
OperandSize(mode) ==
    CASE mode \in {"Implied", "Accumulator"} -> 0
      [] mode \in {"Absolute", "AbsoluteX", "AbsoluteY", "Indirect"} -> 2
      [] OTHER -> 1

\* The operand as the addressing mode carries it (i8 for Relative).
Operand(mode, code) ==
    CASE OperandSize(mode) = 0 -> 0
      [] OperandSize(mode) = 2 -> code[2] + code[3] * 256
      [] mode = "Relative" -> IF code[2] >= 128 THEN code[2] - 256 ELSE code[2]
      [] OTHER -> code[2]

\* decode_instruction(mem): ok is FALSE for Err(InstructionDecodeError).
decode_instruction(code) ==
    LET info == IF code = <<>> THEN <<>> ELSE OpInfo(code[1])
    IN  IF info = <<>> \/ Len(code) < 1 + OperandSize(info[2])
        THEN [ok |-> FALSE, bytes |-> 0,
              ins |-> [op |-> "", mode |-> "", arg |-> 0, cycles |-> 0]]
        ELSE [ok |-> TRUE, bytes |-> 1 + OperandSize(info[2]),
              ins |-> [op |-> info[1], mode |-> info[2],
                       arg |-> Operand(info[2], code), cycles |-> info[3]]]

(***************************************************************************)
(* cpu: registers, status byte, stack                                      *)
(***************************************************************************)
StatusFlagsNew ==
    [negative |-> FALSE, overflow |-> FALSE, brk |-> FALSE, decimal |-> FALSE,
     interrupt |-> FALSE, zero |-> FALSE, carry |-> FALSE]

RegistersNew ==
    [pc |-> 0, sp |-> 0, acc |-> 0, x |-> 0, y |-> 0, status |-> StatusFlagsNew]

B2N(b) == IF b THEN 1 ELSE 0

\* From<&StatusFlags> for u8
PackStatus(f) ==
    B2N(f.carry) + 2 * B2N(f.zero) + 4 * B2N(f.interrupt) + 8 * B2N(f.decimal)
        + 16 * B2N(f.brk) + 32 + 64 * B2N(f.overflow) + 128 * B2N(f.negative)

\* An unpacking that reads the overflow flag from bit 5.
UnpackStatusOverflowBit5(b) ==
    [carry |-> bit_is_set(b, 0), zero |-> bit_is_set(b, 1),
     interrupt |-> bit_is_set(b, 2), decimal |-> bit_is_set(b, 3),
     brk |-> bit_is_set(b, 4), overflow |-> bit_is_set(b, 5),
     negative |-> bit_is_set(b, 7)]

\* From<u8> for StatusFlags
UnpackStatus(b) ==
    [carry |-> bit_is_set(b, 0), zero |-> bit_is_set(b, 1),
     interrupt |-> bit_is_set(b, 2), decimal |-> bit_is_set(b, 3),
     brk |-> bit_is_set(b, 4), overflow |-> bit_is_set(b, 6),
     negative |-> bit_is_set(b, 7)]

STACK_BOTTOM == 256

\* 0xfffe
IRQ_VECTOR == 65534

\* 0xfffc
RESET_VECTOR == 65532

\* A push that checks sp before it stores the byte.
push_stack_check_first(val, m, reg) ==
    IF reg.sp = 0 THEN [out |-> "StackOverflow", m |-> m, reg |-> reg]
    ELSE [out |-> "ok", m |-> MapWrite(m, STACK_BOTTOM + reg.sp, val),
          reg |-> [reg EXCEPT !.sp = reg.sp - 1]]

\* A pop that reads the byte at sp before it increments sp.
pop_stack_before_increment(m, reg) ==
    IF reg.sp = 255
    THEN [out |-> "StackUnderflow", m |-> m, reg |-> reg, val |-> 0]
    ELSE [out |-> "ok", m |-> MapRead(m, STACK_BOTTOM + reg.sp),
          reg |-> [reg EXCEPT !.sp = reg.sp + 1],
          val |-> MapReadValue(m, STACK_BOTTOM + reg.sp)]

\* push_stack: the byte is stored before sp is checked.
push_stack(val, m, reg) ==
    LET m1 == MapWrite(m, STACK_BOTTOM + reg.sp, val)
    IN  IF reg.sp = 0
        THEN [out |-> "StackOverflow", m |-> m1, reg |-> reg]
        ELSE [out |-> "ok", m |-> m1, reg |-> [reg EXCEPT !.sp = reg.sp - 1]]

\* pop_stack: sp is checked before the byte is read.
pop_stack(m, reg) ==
    IF reg.sp = 255
    THEN [out |-> "StackUnderflow", m |-> m, reg |-> reg, val |-> 0]
    ELSE [out |-> "ok", m |-> MapRead(m, STACK_BOTTOM + reg.sp + 1),
          reg |-> [reg EXCEPT !.sp = reg.sp + 1],
          val |-> MapReadValue(m, STACK_BOTTOM + reg.sp + 1)]

\* Consecutive push_stack(..)? calls: the first failure ends the sequence.
RECURSIVE PushAll(_, _, _)
PushAll(vals, m, reg) ==
    IF vals = <<>> THEN [out |-> "ok", m |-> m, reg |-> reg]
    ELSE LET r == push_stack(Head(vals), m, reg)
         IN  IF r.out # "ok" THEN r ELSE PushAll(Tail(vals), r.m, r.reg)

\* (pop_stack()? as u16) | ((pop_stack()? as u16) << 8)
PopWord(m, reg) ==
    LET lo == pop_stack(m, reg)
        hi == pop_stack(lo.m, lo.reg)
    IN  IF lo.out # "ok" THEN lo
        ELSE IF hi.out # "ok" THEN hi
        ELSE [hi EXCEPT !.val = lo.val + 256 * hi.val]

\* mem.read(a) as u16 | (mem.read(a + 1) as u16) << 8
ReadWord(m, a) ==
    [m |-> MapRead(MapRead(m, a), a + 1),
     val |-> MapReadValue(m, a) + 256 * MapReadValue(m, a + 1)]

(***************************************************************************)
(* cpu: operand access                                                     *)
(***************************************************************************)
page_crossed(from, to) == (from \div 256) # (to \div 256)

\* read_mem: out is "panic" where the code panics (overflow in a checked
\* build, or Relative / Implied); m is the memory after the reads.
read_mem(ins, m, reg, build) ==
    LET loc == ins.arg
        Plain(a) == [out |-> "ok", val |-> MapReadValue(m, a), cross |-> FALSE,
                     m |-> MapRead(m, a)]
        Indexed(a) ==
            IF ~a.ok THEN [out |-> "panic", val |-> 0, cross |-> FALSE, m |-> m]
            ELSE [out |-> "ok", val |-> MapReadValue(m, a.val),
                  cross |-> page_crossed(reg.pc, a.val), m |-> MapRead(m, a.val)]
        Via(w) == [out |-> "ok", val |-> MapReadValue(w.m, w.val), cross |-> FALSE,
                   m |-> MapRead(w.m, w.val)]
    IN  CASE ins.mode = "Accumulator" ->
                 [out |-> "ok", val |-> reg.acc, cross |-> FALSE, m |-> m]
          [] ins.mode = "Immediate" ->
                 [out |-> "ok", val |-> loc, cross |-> FALSE, m |-> m]
          [] ins.mode = "Absolute" -> Plain(loc)
          [] ins.mode = "AbsoluteX" -> Indexed(Checked(loc + reg.x, 65536, build))
          [] ins.mode = "AbsoluteY" -> Indexed(Checked(loc + reg.y, 65536, build))
          [] ins.mode = "Indirect" ->
                 IF ~Checked(loc + 1, 65536, build).ok
                 THEN [out |-> "panic", val |-> 0, cross |-> FALSE, m |-> m]
                 ELSE Via([m |-> MapRead(MapRead(m, loc), (loc + 1) % 65536),
                           val |-> MapReadValue(m, loc)
                                     + 256 * MapReadValue(m, (loc + 1) % 65536)])
          [] ins.mode = "IndirectX" -> Via(ReadWord(m, loc + reg.x))
          [] ins.mode = "IndirectY" ->
                 LET w == ReadWord(m, loc)
                     eff == (w.val + reg.y) % 65536
                 IN  [out |-> "ok", val |-> MapReadValue(w.m, eff),
                      cross |-> page_crossed(reg.pc, eff), m |-> MapRead(w.m, eff)]
          [] ins.mode = "ZeroPage" -> Plain(loc)
          [] ins.mode = "ZeroPageX" -> Plain((loc + reg.x) % 256)
          [] ins.mode = "ZeroPageY" -> Plain((loc + reg.y) % 256)
          [] OTHER -> [out |-> "panic", val |-> 0, cross |-> FALSE, m |-> m]

\* write_mem: out is "panic" for the unreachable!() arm and for an overflow
\* in a checked build.
write_mem(val, ins, m, reg, build) ==
    LET loc == ins.arg
        To(a) == [out |-> "ok", m |-> MapWrite(m, a, val), reg |-> reg]
        Indexed(a) == IF a.ok THEN To(a.val)
                      ELSE [out |-> "panic", m |-> m, reg |-> reg]
    IN  CASE ins.mode = "Accumulator" ->
                 [out |-> "ok", m |-> m, reg |-> [reg EXCEPT !.acc = val]]
          [] ins.mode = "Absolute" -> To(loc)
          [] ins.mode = "AbsoluteX" -> Indexed(Checked(loc + reg.x, 65536, build))
          [] ins.mode = "AbsoluteY" -> Indexed(Checked(loc + reg.y, 65536, build))
          [] ins.mode = "ZeroPage" -> To(loc)
          [] ins.mode = "ZeroPageX" -> To((loc + reg.x) % 256)
          [] ins.mode = "IndirectX" ->
                 LET w == ReadWord(m, loc + reg.x)
                 IN  [out |-> "ok", m |-> MapWrite(w.m, w.val, val), reg |-> reg]
          [] ins.mode = "IndirectY" ->
                 LET w == ReadWord(m, loc)
                 IN  [out |-> "ok", m |-> MapWrite(w.m, (w.val + reg.y) % 65536, val),
                      reg |-> reg]
          [] OTHER -> [out |-> "panic", m |-> m, reg |-> reg]

(***************************************************************************)
(* cpu: execute_instruction                                                *)
(*                                                                         *)
(* A result is [out, cycles, m, reg]: out is "ok" for Ok(cycles),          *)
(* "StackOverflow" / "StackUnderflow" for Err(CpuError::Stack(..)) and     *)
(* "panic" where the code aborts; m and reg are what the call leaves.      *)
(***************************************************************************)
R(out, cycles, m, reg) == [out |-> out, cycles |-> cycles, m |-> m, reg |-> reg]

SetZN(reg, v) == [reg EXCEPT !.status.zero = (v = 0), !.status.negative = (v >= 128)]

Penalty(ins, cross) == ins.cycles + IF cross THEN 1 ELSE 0

\* Adc and Sbc once the operand rd is read: overflowing_add / overflowing_sub
\* of the operand alone.
AddSubWith(ins, m, reg, rd) ==
    LET raw == IF ins.op = "Adc" THEN reg.acc + rd.val ELSE reg.acc - rd.val
        v == (raw + 256) % 256
    IN  IF reg.status.decimal \/ rd.out # "ok" THEN R("panic", 0, m, reg)
        ELSE R("ok", Penalty(ins, rd.cross), rd.m,
               [reg EXCEPT !.acc = v,
                           !.status.carry = IF ins.op = "Adc" THEN raw > 255
                                            ELSE ~(raw < 0),
                           !.status.zero = (v = 0),
                           !.status.overflow =
                               BitXor(BitAnd(reg.acc, 128), BitAnd(v, 128)) # 0,
                           !.status.negative = (v >= 128)])

ExecAddSub(ins, m, reg, build) == AddSubWith(ins, m, reg, read_mem(ins, m, reg, build))

\* And, Eor, Ora, Lda, Ldx, Ldy once the operand rd is read.
LoadWith(ins, m, reg, rd) ==
    LET v == CASE ins.op = "And" -> BitAnd(rd.val, reg.acc)
               [] ins.op = "Eor" -> BitXor(reg.acc, rd.val)
               [] ins.op = "Ora" -> BitOr(reg.acc, rd.val)
               [] OTHER -> rd.val
    IN  IF rd.out # "ok" THEN R("panic", 0, m, reg)
        ELSE R("ok", Penalty(ins, rd.cross), rd.m,
               SetZN(CASE ins.op = "Ldx" -> [reg EXCEPT !.x = v]
                       [] ins.op = "Ldy" -> [reg EXCEPT !.y = v]
                       [] OTHER -> [reg EXCEPT !.acc = v],
                     v))

ExecLoad(ins, m, reg, build) == LoadWith(ins, m, reg, read_mem(ins, m, reg, build))

\* Cmp, Cpx, Cpy: r is the register compared with the operand rd.
CompareWith(ins, m, reg, rd, r) ==
    IF rd.out # "ok" THEN R("panic", 0, m, reg)
    ELSE R("ok", IF ins.op = "Cmp" THEN Penalty(ins, rd.cross) ELSE ins.cycles, rd.m,
           IF r < rd.val
           THEN [reg EXCEPT !.status.carry = FALSE, !.status.zero = FALSE,
                            !.status.negative = ((r - rd.val + 256) % 256 >= 128)]
           ELSE [reg EXCEPT !.status.carry = TRUE, !.status.zero = (r = rd.val),
                            !.status.negative = FALSE])

ExecCompare(ins, m, reg, build) ==
    CompareWith(ins, m, reg, read_mem(ins, m, reg, build),
                CASE ins.op = "Cpx" -> reg.x [] ins.op = "Cpy" -> reg.y [] OTHER -> reg.acc)

\* Asl, Lsr, Rol, Ror, Dec, Inc: the value stored back for operand val and
\* carry-in c.
ModifiedValue(op, val, c) ==
    CASE op = "Asl" -> (val * 2) % 256
      [] op = "Lsr" -> val \div 2
      [] op = "Rol" -> BitOr((BitAnd(val, 127) * 2) % 256, c)
      [] op = "Ror" -> BitOr(val \div 2, c * 128)
      [] op = "Dec" -> (val + 255) % 256
      [] OTHER -> (val + 1) % 256

\* The carry they leave.  u8::overflowing_shl(1) reports overflow only for a
\* shift of 8 or more, so Asl always clears it.
ModifiedCarry(op, val, carry) ==
    CASE op = "Asl" -> FALSE
      [] op = "Lsr" -> val % 2 = 1
      [] op = "Rol" -> val >= 128
      [] op = "Ror" -> val % 2 = 1
      [] OTHER -> carry

\* The end of an instruction that stores: wr is what write_mem returned.
StoreResult(ins, m, reg, wr) ==
    IF wr.out # "ok" THEN R("panic", 0, m, reg) ELSE R("ok", ins.cycles, wr.m, wr.reg)

ModifyWith(ins, m, reg, rd, build) ==
    LET v == ModifiedValue(ins.op, rd.val, B2N(reg.status.carry))
    IN  IF rd.out # "ok" THEN R("panic", 0, m, reg)
        ELSE StoreResult(ins, m, reg,
                 write_mem(v, ins, rd.m,
                           SetZN([reg EXCEPT !.status.carry =
                                      ModifiedCarry(ins.op, rd.val, reg.status.carry)],
                                 v),
                           build))

ExecModify(ins, m, reg, build) ==
    ModifyWith(ins, m, reg, read_mem(ins, m, reg, build), build)

\* The eight branches: taken is the branch condition, sum the value of
\* reg.pc as i16 + offset as i16 before the cast back to u16.
ExecBranch(ins, m, reg, taken, build) ==
    LET sum == (IF reg.pc >= 32768 THEN reg.pc - 65536 ELSE reg.pc) + ins.arg
        to == (sum + 65536) % 65536
    IN  IF ~taken THEN R("ok", ins.cycles, m, reg)
        ELSE IF ins.mode # "Relative"
                \/ ((sum < -32768 \/ sum > 32767) /\ build = "debug")
        THEN R("panic", 0, m, reg)
        ELSE R("ok", ins.cycles + 1 + IF page_crossed(reg.pc, to) THEN 1 ELSE 0,
               m, [reg EXCEPT !.pc = to])

\* Brk once pc and the status are pushed.
BrkPushed(p) ==
    LET w == ReadWord(p.m, IRQ_VECTOR)
    IN  IF p.out # "ok" THEN R(p.out, 0, p.m, p.reg)
        ELSE R("ok", 7, w.m, [p.reg EXCEPT !.pc = w.val, !.status.brk = TRUE])

ExecBrk(ins, m, reg) ==
    LET reg1 == [reg EXCEPT !.status.brk = TRUE]
    IN  BrkPushed(PushAll(<<reg1.pc \div 256, reg1.pc % 256, PackStatus(reg1.status)>>,
                          m, reg1))

ExecJmp(ins, m, reg, build) ==
    IF ins.mode = "Absolute" THEN R("ok", ins.cycles, m, [reg EXCEPT !.pc = ins.arg])
    ELSE IF ins.mode = "Indirect" /\ Checked(ins.arg + 1, 65536, build).ok
    THEN R("ok", ins.cycles, MapRead(MapRead(m, ins.arg), (ins.arg + 1) % 65536),
           [reg EXCEPT !.pc = MapReadValue(m, (ins.arg + 1) % 65536) * 256
                                 + MapReadValue(m, ins.arg)])
    ELSE R("panic", 0, m, reg)

JsrPushed(ins, p) ==
    IF p.out # "ok" THEN R(p.out, 0, p.m, p.reg)
    ELSE R("ok", 6, p.m, [p.reg EXCEPT !.pc = ins.arg])

ExecJsr(ins, m, reg, build) ==
    LET reg1 == [reg EXCEPT !.pc = (reg.pc + 65535) % 65536]
    IN  IF ~Checked(reg.pc - 1, 65536, build).ok \/ ins.mode # "Absolute"
        THEN R("panic", 0, m, reg)
        ELSE JsrPushed(ins, PushAll(<<reg1.pc \div 256, reg1.pc % 256>>, m, reg1))

RtiWord(w) ==
    IF w.out # "ok" THEN R(w.out, 0, w.m, w.reg)
    ELSE R("ok", 6, w.m, [w.reg EXCEPT !.pc = w.val])

RtiStatus(st) ==
    IF st.out # "ok" THEN R(st.out, 0, st.m, st.reg)
    ELSE RtiWord(PopWord(st.m, [st.reg EXCEPT !.status = UnpackStatus(st.val)]))

ExecRti(ins, m, reg) == RtiStatus(pop_stack(m, reg))

\* An Rts that does not add 1 to the address it pops.
RtsWordAsPopped(w, build) ==
    IF w.out # "ok" THEN R(w.out, 0, w.m, w.reg)
    ELSE R("ok", 6, w.m, [w.reg EXCEPT !.pc = w.val])

RtsWord(w, build) ==
    IF w.out # "ok" THEN R(w.out, 0, w.m, w.reg)
    ELSE IF ~Checked(w.val + 1, 65536, build).ok
    THEN R("panic", 0, w.m, [w.reg EXCEPT !.pc = w.val])
    ELSE R("ok", 6, w.m, [w.reg EXCEPT !.pc = (w.val + 1) % 65536])

ExecRts(ins, m, reg, build) == RtsWord(PopWord(m, reg), build)

PushResult(ins, push) ==
    R(push.out, IF push.out = "ok" THEN ins.cycles ELSE 0, push.m, push.reg)

PullResult(ins, pop) ==
    CASE pop.out # "ok" -> R(pop.out, 0, pop.m, pop.reg)
      [] ins.op = "Pla" ->
             R("ok", ins.cycles, pop.m, SetZN([pop.reg EXCEPT !.acc = pop.val], pop.val))
      [] OTHER ->
             R("ok", ins.cycles, pop.m, [pop.reg EXCEPT !.status = UnpackStatus(pop.val)])

\* Pha, Php, Pla, Plp
ExecStackOp(ins, m, reg) ==
    CASE ins.op = "Pha" -> PushResult(ins, push_stack(reg.acc, m, reg))
      [] ins.op = "Php" -> PushResult(ins, push_stack(PackStatus(reg.status), m, reg))
      [] OTHER -> PullResult(ins, pop_stack(m, reg))

\* Sta, Stx, Sty
ExecStore(ins, m, reg, build) ==
    StoreResult(ins, m, reg,
        write_mem(CASE ins.op = "Stx" -> reg.x [] ins.op = "Sty" -> reg.y
                    [] OTHER -> reg.acc,
                  ins, m, reg, build))

\* Instructions that touch registers only.
ExecRegister(ins, m, reg) ==
    R("ok", ins.cycles, m,
      CASE ins.op = "Clc" -> [reg EXCEPT !.status.carry = FALSE]
        [] ins.op = "Cld" -> [reg EXCEPT !.status.decimal = FALSE]
        [] ins.op = "Cli" -> [reg EXCEPT !.status.interrupt = FALSE]
        [] ins.op = "Clv" -> [reg EXCEPT !.status.overflow = FALSE]
        [] ins.op = "Sec" -> [reg EXCEPT !.status.carry = TRUE]
        [] ins.op = "Sed" -> [reg EXCEPT !.status.decimal = TRUE]
        [] ins.op = "Sei" -> [reg EXCEPT !.status.interrupt = TRUE]
        [] ins.op = "Dex" -> SetZN([reg EXCEPT !.x = (reg.x + 255) % 256],
                                   (reg.x + 255) % 256)
        [] ins.op = "Dey" -> SetZN([reg EXCEPT !.y = (reg.y + 255) % 256],
                                   (reg.y + 255) % 256)
        [] ins.op = "Inx" -> SetZN([reg EXCEPT !.x = (reg.x + 1) % 256],
                                   (reg.x + 1) % 256)
        [] ins.op = "Iny" -> SetZN([reg EXCEPT !.y = (reg.y + 1) % 256],
                                   (reg.y + 1) % 256)
        [] ins.op = "Tax" -> [reg EXCEPT !.x = reg.acc]
        [] ins.op = "Tay" -> [reg EXCEPT !.y = reg.acc]
        [] ins.op = "Tsx" -> [reg EXCEPT !.x = reg.sp]
        [] ins.op = "Txa" -> [reg EXCEPT !.acc = reg.x]
        [] ins.op = "Txs" -> [reg EXCEPT !.sp = reg.x]
        [] ins.op = "Tya" -> [reg EXCEPT !.acc = reg.y]
        [] OTHER -> reg)

BitWith(ins, m, reg, rd) ==
    IF rd.out # "ok" THEN R("panic", 0, m, reg)
    ELSE R("ok", ins.cycles, rd.m,
           [reg EXCEPT !.status.zero = (BitAnd(rd.val, reg.acc) = 0),
                       !.status.overflow = bit_is_set(rd.val, 6),
                       !.status.negative = bit_is_set(rd.val, 7)])

ExecBit(ins, m, reg, build) == BitWith(ins, m, reg, read_mem(ins, m, reg, build))

execute_instruction(ins, m, reg, build) ==
        CASE ins.op \in {"Adc", "Sbc"} -> ExecAddSub(ins, m, reg, build)
          [] ins.op \in {"And", "Eor", "Ora", "Lda", "Ldx", "Ldy"} ->
                 ExecLoad(ins, m, reg, build)
          [] ins.op \in {"Cmp", "Cpx", "Cpy"} -> ExecCompare(ins, m, reg, build)
          [] ins.op \in {"Asl", "Lsr", "Rol", "Ror", "Dec", "Inc"} ->
                 ExecModify(ins, m, reg, build)
          [] ins.op = "Bcc" -> ExecBranch(ins, m, reg, ~reg.status.carry, build)
          [] ins.op = "Bcs" -> ExecBranch(ins, m, reg, reg.status.carry, build)
          [] ins.op = "Beq" -> ExecBranch(ins, m, reg, reg.status.zero, build)
          [] ins.op = "Bmi" -> ExecBranch(ins, m, reg, reg.status.negative, build)
          [] ins.op = "Bne" -> ExecBranch(ins, m, reg, ~reg.status.zero, build)
          [] ins.op = "Bpl" -> ExecBranch(ins, m, reg, ~reg.status.negative, build)
          [] ins.op = "Bvc" -> ExecBranch(ins, m, reg, ~reg.status.overflow, build)
          [] ins.op = "Bvs" -> ExecBranch(ins, m, reg, reg.status.overflow, build)
          [] ins.op = "Bit" -> ExecBit(ins, m, reg, build)
          [] ins.op = "Brk" -> ExecBrk(ins, m, reg)
          [] ins.op = "Jmp" -> ExecJmp(ins, m, reg, build)
          [] ins.op = "Jsr" -> ExecJsr(ins, m, reg, build)
          [] ins.op = "Nop" -> R("ok", 2, m, reg)
          [] ins.op \in {"Pha", "Php", "Pla", "Plp"} -> ExecStackOp(ins, m, reg)
          [] ins.op = "Rti" -> ExecRti(ins, m, reg)
          [] ins.op = "Rts" -> ExecRts(ins, m, reg, build)
          [] ins.op \in {"Sta", "Stx", "Sty"} -> ExecStore(ins, m, reg, build)
          [] OTHER -> ExecRegister(ins, m, reg)

(***************************************************************************)
(* cpu::Cpu                                                                *)
(***************************************************************************)
CpuNew == [registers |-> RegistersNew]

\* Cpu::initialize: the byte at 0xfe is zeroed through region_mut (no marker
\* changes), then pc is read from the reset vector.
CpuInitialize(c, m) ==
    LET m1 == [m EXCEPT !.bytes = Store(m.bytes, 254, 0)]
        w == ReadWord(m1, RESET_VECTOR)
    IN  [cpu |-> [c EXCEPT !.registers.pc = w.val], m |-> w.m]

\* Cpu::step.  code is the content of mem.region(pc..pc + 4): the slice panics
\* when it runs past the end of memory, and .unwrap() panics on a decode error.
CpuExecuted(c, r) ==
    [out |-> r.out, cycles |-> r.cycles, m |-> r.m,
     cpu |-> [c EXCEPT !.registers = r.reg]]

CpuDecoded(c, m, d, build) ==
    IF c.registers.pc + 4 > MEM_SIZE \/ ~d.ok
    THEN [out |-> "panic", cycles |-> 0, m |-> m, cpu |-> c]
    ELSE CpuExecuted(c, execute_instruction(d.ins, m,
                            [c.registers EXCEPT !.pc = c.registers.pc + d.bytes],
                            build))

CpuStep(c, m, code, build) == CpuDecoded(c, m, decode_instruction(code), build)

push_cpu_state(c, m) ==
    PushAll(<<c.registers.pc \div 256, c.registers.pc % 256,
              PackStatus(c.registers.status)>>, m, c.registers)

\* The rest of an interrupt entry once push_cpu_state has returned p.
InterruptPushed(c, p) ==
    LET w == ReadWord(p.m, IRQ_VECTOR)
    IN  IF p.out # "ok"
        THEN [out |-> p.out, taken |-> FALSE, m |-> p.m,
              cpu |-> [c EXCEPT !.registers = p.reg]]
        ELSE [out |-> "ok", taken |-> TRUE, m |-> w.m,
              cpu |-> [c EXCEPT !.registers =
                           [p.reg EXCEPT !.pc = w.val, !.status.interrupt = TRUE]]]

\* An interrupt entry that does not look at status.interrupt.
interrupt_request_unmasked(c, m) == InterruptPushed(c, push_cpu_state(c, m))

\* Cpu::interrupt_request: out is "ok" with taken for Ok(bool), or the stack
\* error of push_cpu_state.
interrupt_request(c, m) ==
    IF c.registers.status.interrupt
    THEN [out |-> "ok", taken |-> FALSE, m |-> m, cpu |-> c]
    ELSE InterruptPushed(c, push_cpu_state(c, m))

(***************************************************************************)
(* The memory map on its own: Map::read, Map::write and                    *)
(* Map::clear_last_hw_access called in any order on a map with two         *)
(* registered sideways ROMs.                                               *)
(*                                                                         *)
(* ghost carries the reference reading of the paging rules: L is the       *)
(* content each sideways ROM should show when selected (every store into   *)
(* the slot lands in the selected ROM), sel is the selected ROM (0 at      *)
(* first, n after an in-range n is stored at 0xfe30), op is the last call. *)
(***************************************************************************)
\* Bytes of the two registered images (offset 0 and offset 1 of each).
RomA == (0 :> 170) @@ (1 :> 171)

RomB == (0 :> 187) @@ (1 :> 188)

\* The window the map's own tests declare, and a second one below it.
HwWindow == Range(65024, 65280)

LowWindow == Range(64512, 64768)

\* Map::with_hw_ranges
with_hw_ranges(m, ranges) == [m EXCEPT !.hw_ranges = m.hw_ranges \o ranges]

\* Map::add_paged_rom
add_paged_rom(m, rom) == [m EXCEPT !.paged_roms = Append(m.paged_roms, rom)]

\* A place_rom_at that skips the zero bytes of the ROM.
place_rom_at_skipping_zeros(m, location, rom) ==
    [m EXCEPT !.bytes =
        [a \in DOMAIN m.bytes
                \cup {o + location : o \in {x \in DOMAIN rom :
                                              rom[x] # 0 /\ x + location < MEM_SIZE}}
            |-> IF a - location \in DOMAIN rom /\ rom[a - location] # 0
                THEN rom[a - location] ELSE m.bytes[a]]]

\* BbcEmulator::place_rom_at: rom (the bytes at offsets DOMAIN rom) is copied
\* over the bytes from location on, as far as the memory reaches, through
\* region_from_mut, which leaves the access markers alone.
place_rom_at(m, location, rom) ==
    [m EXCEPT !.bytes =
        [a \in {x \in DOMAIN m.bytes : x - location \notin DOMAIN rom}
                \cup {o + location : o \in {x \in DOMAIN rom :
                                              rom[x] # 0 /\ x + location < MEM_SIZE}}
            |-> IF a - location \in DOMAIN rom THEN rom[a - location]
                ELSE m.bytes[a]]]

\* io::copy(..).unwrap() in place_rom_at: write_all into the cursor over the
\* region fails with WriteZero once the region is full and bytes remain.
place_rom_result(location, rom) ==
    IF \A o \in DOMAIN rom : location + o < MEM_SIZE THEN "ok" ELSE "panic"

MapAddrs == {4096, 32768, 32769, 49152, 64767, 64768, 65024, 65072, 65279, 65280, 65281}

MapWrites ==
    {<<32768, 85>>, <<32769, 0>>, <<65072, 0>>, <<65072, 1>>, <<65072, 2>>,
     <<65024, 12>>, <<65280, 7>>, <<4096, 9>>}

IdleEmu == [result |-> "none", cycles |-> 0, irq |-> FALSE, build |-> "debug"]

InitMap ==
    /\ \E ranges \in {<<>>, <<HwWindow>>, <<LowWindow, HwWindow>>} :
           mem = place_rom_at(
                     add_paged_rom(add_paged_rom(with_hw_ranges(MapNew, ranges), RomA),
                                   RomB),
                     PAGED_ROM_START, RomA)
    /\ cpu = CpuNew
    /\ via = SystemNew
    /\ crtc = CrtcNew
    /\ emu = IdleEmu
    /\ host = [ops |-> 0]
    /\ ghost = [L |-> <<RomA, RomB>>, sel |-> 0, op |-> <<"new">>]

\* The reference reading of a store: which ROM is selected afterwards and what
\* each ROM should show.
RefSelect(g, loc, val) ==
    IF loc = PAGED_ROM_REGISTER /\ val < Len(g.L) THEN val ELSE g.sel

RefStore(g, loc, val) ==
    IF InPagedSlot(loc)
    THEN [g.L EXCEPT ![g.sel + 1] = Store(g.L[g.sel + 1], loc - PAGED_ROM_START, val)]
    ELSE g.L

MapReadOp(a) ==
    /\ host.ops < MaxMapOps
    /\ mem' = MapRead(mem, a)
    /\ host' = [host EXCEPT !.ops = host.ops + 1]
    /\ ghost' = [ghost EXCEPT !.op = <<"read", a, MapReadValue(mem, a)>>]
    /\ UNCHANGED <<cpu, via, crtc, emu>>

MapWriteOp(a, v) ==
    /\ host.ops < MaxMapOps
    /\ mem' = MapWrite(mem, a, v)
    /\ host' = [host EXCEPT !.ops = host.ops + 1]
    /\ ghost' = [L |-> RefStore(ghost, a, v), sel |-> RefSelect(ghost, a, v),
                 op |-> <<"write", a, v>>]
    /\ UNCHANGED <<cpu, via, crtc, emu>>

MapClearOp ==
    /\ host.ops < MaxMapOps
    /\ ghost.op[1] \in {"read", "write"}
    /\ mem' = clear_last_hw_access(mem)
    /\ host' = [host EXCEPT !.ops = host.ops + 1]
    /\ ghost' = [ghost EXCEPT !.op = <<"clear">>]
    /\ UNCHANGED <<cpu, via, crtc, emu>>

NextMap ==
    \/ \E a \in MapAddrs : MapReadOp(a)
    \/ \E w \in MapWrites : MapWriteOp(w[1], w[2])
    \/ MapClearOp

SpecMap == InitMap /\ [][NextMap]_vars

\* An address lies in a declared window read as half-open: start <= a < end.
InDeclaredWindow(m, a) ==
    \E i \in DOMAIN m.hw_ranges : a >= m.hw_ranges[i].start /\ a < m.hw_ranges[i].end

\* C4: after Map::read(a) last_hw_read is Some(a) iff a lies in a declared
\* half-open window [start, end) and None otherwise; after Map::write(a, v)
\* last_hw_write is Some((a, v)) iff a lies in such a window and None otherwise.
C4_MarkerIffInHalfOpenWindow ==
    /\ ghost.op[1] = "read" =>
           mem.last_hw_read =
               IF InDeclaredWindow(mem, ghost.op[2]) THEN Some(ghost.op[2]) ELSE None
    /\ ghost.op[1] = "write" =>
           mem.last_hw_write =
               IF InDeclaredWindow(mem, ghost.op[2])
               THEN Some(<<ghost.op[2], ghost.op[3]>>) ELSE None

\* C8: the bytes visible at 0x8000..0xC000 are the contents of the currently
\* selected sideways ROM, the selection starting at ROM 0 and changing to n
\* exactly when an in-range n is written to 0xFE30.
C8_SlotShowsSelectedRom == SlotImage(mem.bytes) = ghost.L[ghost.sel + 1]

\* C9: on every switch the outgoing slot contents are saved into the backing
\* image of the ROM that was selected, so every ROM that is not selected holds
\* in its backing image what was last visible while it was selected.
C9_OutgoingRomSaved ==
    \A n \in 0..(Len(ghost.L) - 1) :
        n # ghost.sel => PagedRom(mem, n) = ghost.L[n + 1]

(***************************************************************************)
(* The system VIA on its own, driven as BbcEmulator::step drives it: the   *)
(* CPU's store (if any) sets the write marker, System::step runs with the  *)
(* instruction's cycle count, the markers are cleared.  Between steps the  *)
(* host may report a key or clear the keyboard buffer.                     *)
(*                                                                         *)
(* The run starts with the VIA as System::new() leaves it, or at a running *)
(* time shortly before 40,000 or 400,000 cycles (cycles_elapsed and        *)
(* timer_count agree until the first expiry).                              *)
(*                                                                         *)
(* ghost: pending is the set of sources signalled since the last drain;    *)
(* due, ier, irq, crossed and timed describe the last System::step: the    *)
(* sources pending at its drain, enabled() at its drain, whether it        *)
(* invoked the callback, whether cycles_elapsed passed a multiple of 20 ms *)
(* in it, and whether it signalled Timer1 and VerticalSync.                *)
(***************************************************************************)
\* timer::TIMER_INTERVAL_IN_MS
TIMER_INTERVAL_IN_MS == 20

\* timer::CYCLES_PER_INTERVAL
CYCLES_PER_INTERVAL == CYCLES_PER_MS * TIMER_INTERVAL_IN_MS

TimerStarts == {0, CYCLES_PER_INTERVAL - 4, TIMER_FREQ - 4}

\* Cycle counts of a short and of the longest instruction.
ViaCycles == {2, 7}

\* Stores into the VIA window: IER, IFR, Port A (both), Port B, DDRA.
ViaWrites ==
    {<<IER_REGISTER, 129>>, <<IER_REGISTER, 192>>, <<IER_REGISTER, 1>>,
     <<IFR_REGISTER, 127>>, <<IFR_REGISTER, 64>>, <<PA2_IO_REG, 97>>,
     <<PA1_IO_REG, 0>>, <<PB_IO_REG, 11>>, <<PA_DDR_REG, 255>>}

Keys == {10}

InitVia ==
    /\ mem = with_hw_ranges(MapNew, <<HwWindow>>)
    /\ cpu = CpuNew
    /\ \E t \in TimerStarts :
           /\ via = [SystemNew EXCEPT !.cycles_elapsed = t, !.timer_count = t]
           /\ host = [ops |-> 0, start |-> t]
    /\ crtc = CrtcNew
    /\ emu = IdleEmu
    /\ ghost = [pending |-> {}, due |-> {}, ier |-> 0, irq |-> FALSE,
                crossed |-> FALSE, timed |-> FALSE, op |-> "new"]

\* The sources System::step signals itself, read off the state it starts in.
StepSignals(v, write, cycles) ==
    (IF /\ IsSome(write)
        /\ Unwrap(write)[1] = PA2_IO_REG
        /\ KbLen(v.registers.keyboard_buffer) > 0
     THEN {Keyboard} ELSE {})
    \cup (IF v.timer_count + cycles >= TIMER_FREQ THEN {Timer1, VerticalSync} ELSE {})

ViaCycle(cycles, write) ==
    /\ host.ops < MaxViaOps
    /\ LET m1 == IF IsSome(write)
                 THEN MapWrite(mem, Unwrap(write)[1], Unwrap(write)[2])
                 ELSE mem
           r == ViaStep(via, m1, cycles)
       IN  /\ via' = r.via
           /\ mem' = clear_last_hw_access(r.mem)
           /\ ghost' =
                  [pending |-> {},
                   due |-> ghost.pending \cup StepSignals(via, write, cycles),
                   ier |-> EnabledOf(r.via.registers.interrupts),
                   irq |-> r.irq,
                   crossed |-> (via.cycles_elapsed + cycles) \div CYCLES_PER_INTERVAL
                                   > via.cycles_elapsed \div CYCLES_PER_INTERVAL,
                   timed |-> {Timer1, VerticalSync}
                                 \subseteq StepSignals(via, write, cycles),
                   op |-> "step"]
    /\ host' = [host EXCEPT !.ops = host.ops + 1]
    /\ UNCHANGED <<cpu, crtc, emu>>

ViaKeyDown(k) ==
    /\ host.ops < MaxViaOps
    /\ via' = SystemKeydown(via, k)
    /\ ghost' = [ghost EXCEPT !.pending = ghost.pending \cup {Keyboard}, !.op = "key"]
    /\ host' = [host EXCEPT !.ops = host.ops + 1]
    /\ UNCHANGED <<mem, cpu, crtc, emu>>

ViaClearKeyboardBuffer ==
    /\ host.ops < MaxViaOps
    /\ ghost.op = "key"
    /\ via' = SystemClearKeyboardBuffer(via)
    /\ ghost' = [ghost EXCEPT !.op = "clear"]
    /\ host' = [host EXCEPT !.ops = host.ops + 1]
    /\ UNCHANGED <<mem, cpu, crtc, emu>>

NextVia ==
    \/ \E c \in ViaCycles, w \in {None} \cup {Some(x) : x \in ViaWrites} : ViaCycle(c, w)
    \/ \E k \in Keys : ViaKeyDown(k)
    \/ ViaClearKeyboardBuffer

SpecVia == InitVia /\ [][NextVia]_vars

\* C5: System::step invokes the IRQ callback iff at least one source
\* signalled since the previous drain has its IER bit set at drain time, and
\* after every VIA step the signalled mask is empty.
C5_IrqIffEnabledSourceSignalled ==
    ghost.op = "step" =>
        /\ ghost.irq <=> \E t \in ghost.due : bit_is_set(ghost.ier, t)
        /\ via.registers.interrupts.signalled = 0

\* A step with a source pending whose IER bit is clear: once with another,
\* enabled source pending (the callback fires), once without.
C5_Witness ==
    /\ ghost.op = "step"
    /\ ghost.irq
    /\ \E t \in ghost.due : ~bit_is_set(ghost.ier, t)

\* Bit 7 of an IFR value is set iff one of bits 0..6 is.
IfrSummaryBit(x) == bit_is_set(x, 7) <=> BitAnd(x, 127) # 0

\* C6: after any sequence of VIA events the IFR value exposed by
\* Interrupts::flags() and written back to memory at 0xFE4D has bit 7 set iff
\* at least one of bits 0..6 is set.
C6_IfrBit7IffAnyFlag ==
    /\ IfrSummaryBit(FlagsOf(via.registers.interrupts))
    /\ ghost.op = "step" =>
           /\ MemByte(mem.bytes, IFR_REGISTER) = FlagsOf(via.registers.interrupts)
           /\ IfrSummaryBit(MemByte(mem.bytes, IFR_REGISTER))

\* A flag is latched and the write-back shows it with bit 7.
C6_Witness ==
    /\ ghost.op = "step"
    /\ via.registers.interrupts.flags # 0
    /\ MemByte(mem.bytes, IFR_REGISTER) >= 128

\* C7: System::step signals Timer1 and VerticalSync together in exactly the
\* steps in which the accumulated cycle count crosses a 20 ms boundary
\* (a multiple of cycles_per_ms x 20 = 40,000 cycles).
C7_TimerEvery20ms == ghost.op = "step" => (ghost.crossed <=> ghost.timed)

(***************************************************************************)
(* The emulator: BbcEmulator::step called by the host, which may report a  *)
(* key or clear the keyboard buffer between steps.                         *)
(*                                                                         *)
(* Memory is Map::new() with the hardware window 0xfe00..0xff00, an OS ROM *)
(* placed at 0xc000 and the CPU initialized from the reset vector.  The    *)
(* ROM holds a boot script followed by BodyLen instructions chosen from a  *)
(* menu; the cells after them are 0x00 (Brk), and the IRQ/BRK vector       *)
(* points at a handler that consists of Rti.                               *)
(*                                                                         *)
(* emu.result is what the last step call gave: "Progressed", the stack     *)
(* error it returned, or "panic" / "hang" when the call aborted the        *)
(* process or never returned; no step follows those two.                   *)
(*                                                                         *)
(* ghost describes the last step call: defined (the byte at pc was a       *)
(* defined opcode), mark (the write marker Cpu::step left), via_saw and    *)
(* crtc_saw (the write marker System::step and Crtc6845::step were called  *)
(* with, <<>> when not called), irq (the VIA invoked the callback), pre    *)
(* (the CPU registers when Cpu::step returned), and marked (an earlier     *)
(* step's instruction left an access marker).                              *)
(***************************************************************************)
\* 0xc000
OS_ROM_START == 49152

\* Boot scripts, as the bytes of each instruction: none; LDX #$FF, TXS (set up
\* the stack); the same followed by LDA #$81, STA $FE4E (enable the keyboard
\* interrupt); and the enable without a stack.
BootScripts ==
    {<<>>,
     <<<<162, 255>>, <<154>>>>,
     <<<<162, 255>>, <<154>>, <<169, 129>>, <<141, 78, 254>>>>,
     <<<<169, 129>>, <<141, 78, 254>>>>}

\* The instruction menu: LDA #$81, STA $FE4E (IER), STA $FE00 (CRTC address),
\* STA $FE01 (CRTC data), STA $FE20 (ULA), SEI, PLA, PHA, NOP and the undefined
\* opcode 0x02.
Menu ==
    {<<169, 129>>, <<141, 78, 254>>, <<141, 0, 254>>, <<141, 1, 254>>,
     <<141, 32, 254>>, <<120>>, <<104>>, <<72>>, <<234>>, <<2>>}

RECURSIVE Flatten(_)
Flatten(ss) == IF ss = <<>> THEN <<>> ELSE Head(ss) \o Flatten(Tail(ss))

\* The non-zero bytes of a byte sequence, as an image starting at offset base.
ImageAt(base, bytes) ==
    [o \in {base + i - 1 : i \in {j \in DOMAIN bytes : bytes[j] # 0}}
        |-> bytes[o - base + 1]]

\* A 16 KiB OS ROM: the program at its start, an IRQ handler that is a single
\* RTI (0x40) at 0xc100, and in its last four bytes the reset vector (0xc000)
\* and the IRQ vector (0xc100).
OsRom(program) ==
    ImageAt(0, program) @@ ImageAt(256, <<64>>)
        @@ ImageAt(RESET_VECTOR - OS_ROM_START,
                   <<OS_ROM_START % 256, OS_ROM_START \div 256,
                     (OS_ROM_START + 256) % 256, (OS_ROM_START + 256) \div 256>>)

\* mem.region(pc..pc + 4), for pc + 4 within memory.
InstructionRegion(m, pc) == [i \in 1..4 |-> MemByte(m.bytes, pc + i - 1)]

Init ==
    /\ \E boot \in BootScripts, body \in [1..BodyLen -> Menu], build \in Builds :
           LET placed == place_rom_at(with_hw_ranges(MapNew, <<HwWindow>>),
                                      OS_ROM_START,
                                      OsRom(Flatten(boot \o body)))
               started == CpuInitialize(CpuNew, placed)
           IN  /\ mem = started.m
               /\ cpu = started.cpu
               /\ emu = [result |-> "none", cycles |-> 0, irq |-> FALSE,
                         build |-> build]
    /\ via = SystemNew
    /\ crtc = CrtcNew
    /\ host = [steps |-> 0, keys |-> 0, cleared |-> FALSE]
    /\ ghost = [op |-> "new", defined |-> TRUE, mark |-> None, via_saw |-> <<>>,
                crtc_saw |-> <<>>, irq |-> FALSE, pre |-> cpu.registers,
                marked |-> FALSE]

\* BbcEmulator::step, as one value: what the call leaves in each component,
\* its outcome, and what each callee was called with.  c, v, k and q are the
\* results of Cpu::step, System::step, Crtc6845::step and the interrupt entry.
StepOutcome(result, cycles, irq, c, m, v, k, mark, via_saw, crtc_saw, pre) ==
    [result |-> result, cycles |-> cycles, irq |-> irq, cpu |-> c, mem |-> m,
     via |-> v, crtc |-> k, mark |-> mark, via_saw |-> via_saw,
     crtc_saw |-> crtc_saw, pre |-> pre]

StepFinished(c, v, k, q) ==
    StepOutcome("Progressed", c.cycles, v.irq, q.cpu, clear_last_hw_access(q.m),
                v.via, k.crtc, c.m.last_hw_write, <<c.m.last_hw_write>>,
                <<v.mem.last_hw_write>>, c.cpu.registers)

StepAfterVideo(c, v, k) ==
    IF k.out # "ok"
    THEN StepOutcome(k.out, c.cycles, v.irq, c.cpu, v.mem, v.via, k.crtc,
                     c.m.last_hw_write, <<c.m.last_hw_write>>,
                     <<v.mem.last_hw_write>>, c.cpu.registers)
    ELSE StepFinished(c, v, k,
                      IF v.irq THEN interrupt_request(c.cpu, v.mem)
                      ELSE [out |-> "ok", taken |-> FALSE, m |-> v.mem, cpu |-> c.cpu])

StepAfterVia(c, v) == StepAfterVideo(c, v, CrtcStep(crtc, v.mem, c.cycles, emu.build))

StepAfterCpu(c) ==
    CASE c.out = "panic" ->
             StepOutcome("panic", 0, FALSE, cpu, mem, via, crtc, None, <<>>, <<>>,
                         cpu.registers)
      [] c.out # "ok" ->
             StepOutcome(c.out, 0, FALSE, c.cpu, c.m, via, crtc, c.m.last_hw_write,
                         <<>>, <<>>, c.cpu.registers)
      [] OTHER -> StepAfterVia(c, ViaStep(via, c.m, c.cycles))

EmulatorStep ==
    StepAfterCpu(CpuStep(cpu, mem, InstructionRegion(mem, cpu.registers.pc), emu.build))

Step ==
    /\ host.steps < MaxSteps
    /\ emu.result \notin {"panic", "hang"}
    /\ cpu.registers.pc + 4 <= MEM_SIZE
    /\ \E r \in {EmulatorStep} :
           /\ cpu' = r.cpu
           /\ mem' = r.mem
           /\ via' = r.via
           /\ crtc' = r.crtc
           /\ emu' = [emu EXCEPT !.result = r.result, !.cycles = r.cycles,
                                 !.irq = r.irq]
           /\ ghost' = [op |-> "step",
                        defined |-> OpInfo(MemByte(mem.bytes, cpu.registers.pc)) # <<>>,
                        mark |-> r.mark, via_saw |-> r.via_saw,
                        crtc_saw |-> r.crtc_saw, irq |-> r.irq, pre |-> r.pre,
                        marked |-> ghost.marked \/ IsSome(ghost.mark)]
    /\ host' = [host EXCEPT !.steps = host.steps + 1]

\* Emulator::keydown
KeyDown(k) ==
    /\ host.keys < MaxKeys
    /\ emu.result \notin {"panic", "hang"}
    /\ via' = SystemKeydown(via, k)
    /\ host' = [host EXCEPT !.keys = host.keys + 1]
    /\ ghost' = [ghost EXCEPT !.op = "key"]
    /\ UNCHANGED <<mem, cpu, crtc, emu>>

\* Emulator::clear_keyboard_buffer
ClearKeyboardBuffer ==
    /\ host.keys > 0
    /\ ~host.cleared
    /\ emu.result \notin {"panic", "hang"}
    /\ via' = SystemClearKeyboardBuffer(via)
    /\ host' = [host EXCEPT !.cleared = TRUE]
    /\ ghost' = [ghost EXCEPT !.op = "clear"]
    /\ UNCHANGED <<mem, cpu, crtc, emu>>

Next ==
    \/ Step
    \/ \E k \in Keys : KeyDown(k)
    \/ ClearKeyboardBuffer

Spec == Init /\ [][Next]_vars

\* C1: when the instruction run by a step ends with a write to a peripheral
\* register, System::step and then Crtc6845::step are both called with that
\* (address, value) as last_hw_write, and once the step has returned the write
\* marker is None, so the next step's peripherals do not see the write again.
C1_PeripheralWriteSeenOnce ==
    ghost.op = "step" =>
        /\ (IsSome(ghost.mark)
               /\ Unwrap(ghost.mark)[1]
                      \in (SYSTEM_VIA_REG_START..(SYSTEM_VIA_REG_END - 1))
                              \cup {CRTC_ADDR_REG, CRTC_DATA_REG, ULA_CONTROL_REG})
               => (ghost.via_saw = <<ghost.mark>> /\ ghost.crtc_saw = <<ghost.mark>>)
        /\ emu.result = "Progressed" => mem.last_hw_write = None

\* A step whose instruction stored to a VIA register, seen by both peripherals.
C1_Witness ==
    /\ ghost.op = "step"
    /\ emu.result = "Progressed"
    /\ IsSome(ghost.mark)
    /\ Unwrap(ghost.mark)[1] = IER_REGISTER
    /\ ghost.via_saw = <<ghost.mark>>
    /\ ghost.crtc_saw = <<ghost.mark>>

\* The CPU is in the state an interrupt entry leaves after the registers
\* ghost.pre: pc high, pc low and the packed status pushed, pc loaded from
\* the IRQ vector, status.interrupt set.
InterruptTaken ==
    /\ ghost.pre.sp >= 3
    /\ cpu.registers.sp = ghost.pre.sp - 3
    /\ MemByte(mem.bytes, STACK_BOTTOM + ghost.pre.sp) = ghost.pre.pc \div 256
    /\ MemByte(mem.bytes, STACK_BOTTOM + ghost.pre.sp - 1) = ghost.pre.pc % 256
    /\ MemByte(mem.bytes, STACK_BOTTOM + ghost.pre.sp - 2) = PackStatus(ghost.pre.status)
    /\ cpu.registers.pc = MemByte(mem.bytes, IRQ_VECTOR)
                            + 256 * MemByte(mem.bytes, IRQ_VECTOR + 1)
    /\ cpu.registers.status = [ghost.pre.status EXCEPT !.interrupt = TRUE]

IrqRequested == ghost.op = "step" /\ emu.result = "Progressed" /\ ghost.irq

C3_MarkersClearedAfterStep ==
    ghost.op = "step" /\ emu.result \in {"Progressed", "StackOverflow", "StackUnderflow"}
        => mem.last_hw_read = None /\ mem.last_hw_write = None

\* A step that returned a CPU error after an earlier step's instruction had
\* left a marker.
C3_Witness ==
    /\ ghost.op = "step"
    /\ emu.result \in {"StackOverflow", "StackUnderflow"}
    /\ ghost.marked
    /\ mem.last_hw_read = None
    /\ mem.last_hw_write = None

\* C10: a step whose byte at pc is not a defined opcode returns
\* CpuError::InvalidInstruction.
C10_InvalidInstructionReturned ==
    ghost.op = "step" /\ ~ghost.defined => emu.result = "InvalidInstruction"

\* C11: every stack fault raised inside a step, by the executed instruction or
\* by the interrupt entry made when the VIA requested an IRQ, is the error the
\* step returns; a step in which a stack fault occurred never returns
\* Progressed.
C11_StackFaultReturned ==
    ghost.op = "step" /\ emu.result = "Progressed" =>
        ~(ghost.irq /\ interrupt_request([registers |-> ghost.pre], mem).out # "ok")

\* C12: whatever the CPU writes to the VIA and CRTC/ULA registers, a step that
\* reaches System::step and Crtc6845::step sees both complete: the call does
\* not abort.
C12_PeripheralStepsComplete ==
    ghost.op = "step" /\ ghost.crtc_saw # <<>> => emu.result # "panic"

(***************************************************************************)
(* The CPU on its own: Cpu::step and Cpu::interrupt_request applied to     *)
(* chosen registers and a chosen instruction.                              *)
(*                                                                         *)
(* Memory holds the instruction at pc, a pointer to 0x20f0 in the zero     *)
(* page cells 0x10/0x11, data bytes at 0x20f0 and 0x2110 (the cell an      *)
(* index of 0x20 reaches from 0x20f0, across a page boundary) and the IRQ  *)
(* vector 0xc100.                                                          *)
(*                                                                         *)
(* ghost describes the last call: pre and premem are the registers and the *)
(* memory it was made with, ins the instruction decoded (for a step), out  *)
(* the outcome ("ok", a stack error or "panic"), cycles the count returned *)
(* by a step and taken the bool returned by interrupt_request.             *)
(***************************************************************************)
\* The instruction at pc: ADC #$7F, #$3F, #$00, #$80; ADC $20F0,X; LDA $20F0,X;
\* LDA $20F0,Y; LDA ($10),Y; CMP $20F0,Y; SBC $20F0,X; ORA ($10),Y;
\* AND $20F0,X; EOR $20F0,Y; LDX $20F0,Y; LDY $20F0,X; ADC ($10),Y; BRK.
CpuCodes ==
    {<<105, 127>>, <<105, 63>>, <<105>>, <<105, 128>>, <<125, 240, 32>>,
     <<189, 240, 32>>, <<185, 240, 32>>, <<177, 16>>, <<217, 240, 32>>,
     <<253, 240, 32>>, <<17, 16>>, <<61, 240, 32>>, <<89, 240, 32>>,
     <<190, 240, 32>>, <<188, 240, 32>>, <<113, 16>>, <<>>}

InitCpu ==
    /\ \E code \in CpuCodes, pc \in {8192, 49152}, acc \in {0, 63, 127, 128, 255},
          x \in {0, 32}, y \in {0, 32}, sp \in {0, 2, 253, 255},
          carry \in BOOLEAN, interrupt \in BOOLEAN, build \in Builds :
           /\ mem = [with_hw_ranges(MapNew, <<HwWindow>>) EXCEPT !.bytes =
                         ImageAt(pc, code) @@ ImageAt(16, <<240, 32>>)
                             @@ ImageAt(8432, <<1>>) @@ ImageAt(8464, <<127>>)
                             @@ ImageAt(IRQ_VECTOR, <<0, 193>>)]
           /\ cpu = [registers |->
                         [RegistersNew EXCEPT !.pc = pc, !.acc = acc, !.x = x, !.y = y,
                                              !.sp = sp, !.status.carry = carry,
                                              !.status.interrupt = interrupt]]
           /\ emu = [IdleEmu EXCEPT !.build = build]
    /\ via = SystemNew
    /\ crtc = CrtcNew
    /\ host = [ops |-> 0]
    /\ ghost = [op |-> "new", pre |-> RegistersNew, premem |-> MapNew,
                ins |-> decode_instruction(<<>>).ins, out |-> "ok", cycles |-> 0,
                taken |-> FALSE]

\* Cpu::step on the instruction at pc.
CpuStepOp ==
    /\ host.ops < MaxCpuOps
    /\ emu.result # "panic"
    /\ cpu.registers.pc + 4 <= MEM_SIZE
    /\ \E r \in {CpuStep(cpu, mem, InstructionRegion(mem, cpu.registers.pc), emu.build)} :
           /\ cpu' = r.cpu
           /\ mem' = r.m
           /\ emu' = [emu EXCEPT !.result = r.out, !.cycles = r.cycles]
           /\ ghost' = [op |-> "step", pre |-> cpu.registers, premem |-> mem,
                        ins |-> decode_instruction(
                                    InstructionRegion(mem, cpu.registers.pc)).ins,
                        out |-> r.out, cycles |-> r.cycles, taken |-> FALSE]
    /\ host' = [host EXCEPT !.ops = host.ops + 1]
    /\ UNCHANGED <<via, crtc>>

\* Cpu::interrupt_request
InterruptRequestOp ==
    /\ host.ops < MaxCpuOps
    /\ emu.result # "panic"
    /\ \E r \in {interrupt_request(cpu, mem)} :
           /\ cpu' = r.cpu
           /\ mem' = r.m
           /\ emu' = [emu EXCEPT !.result = r.out, !.cycles = 0]
           /\ ghost' = [op |-> "irq", pre |-> cpu.registers, premem |-> mem,
                        ins |-> decode_instruction(<<>>).ins, out |-> r.out,
                        cycles |-> 0, taken |-> r.taken]
    /\ host' = [host EXCEPT !.ops = host.ops + 1]
    /\ UNCHANGED <<via, crtc>>

NextCpu ==
    \/ CpuStepOp
    \/ InterruptRequestOp

SpecCpu == InitCpu /\ [][NextCpu]_vars

(***************************************************************************)
(* Properties of SpecCpu                                                   *)
(***************************************************************************)
\* The last call was interrupt_request and it changed nothing: it returned
\* Ok(false) and left every register and the memory as they were.
IrqIgnored ==
    /\ ghost.out = "ok" /\ ~ghost.taken
    /\ cpu.registers = ghost.pre
    /\ mem = ghost.premem

\* The last call was interrupt_request and it entered the handler: PC high, PC
\* low and the packed status lie at 0x0100+sp, 0x0100+sp-1 and 0x0100+sp-2 of
\* the stack pointer before the call, pc is the word at 0xfffe/0xffff, I is set,
\* nothing else of the registers moved, and the call returned Ok(true).
IrqEntered ==
    /\ ghost.out = "ok" /\ ghost.taken
    /\ ghost.pre.sp >= 3
    /\ MemByte(mem.bytes, STACK_BOTTOM + ghost.pre.sp) = ghost.pre.pc \div 256
    /\ MemByte(mem.bytes, STACK_BOTTOM + ghost.pre.sp - 1) = ghost.pre.pc % 256
    /\ MemByte(mem.bytes, STACK_BOTTOM + ghost.pre.sp - 2) = PackStatus(ghost.pre.status)
    /\ \A a \in (DOMAIN mem.bytes \cup DOMAIN ghost.premem.bytes)
                   \ ((STACK_BOTTOM + ghost.pre.sp - 2)..(STACK_BOTTOM + ghost.pre.sp)) :
           MemByte(mem.bytes, a) = MemByte(ghost.premem.bytes, a)
    /\ cpu.registers =
           [ghost.pre EXCEPT !.sp = ghost.pre.sp - 3,
                             !.pc = MemByte(ghost.premem.bytes, IRQ_VECTOR)
                                    + 256 * MemByte(ghost.premem.bytes, IRQ_VECTOR + 1),
                             !.status.interrupt = TRUE]

\* C13 as stated: interrupt_request with I clear pushes PC high, PC low and
\* the packed status, loads pc from 0xfffe/0xffff, sets I and returns true; with
\* I set it returns false and changes nothing.
C13_IrqEntersWheneverUnmasked ==
    ghost.op = "irq" =>
        IF ghost.pre.status.interrupt THEN IrqIgnored ELSE IrqEntered

\* C13: interrupt_request with I clear and room for three bytes on the stack
\* (sp >= 3) pushes PC high, PC low and the packed status, loads pc from
\* 0xfffe/0xffff, sets I and returns true; with I clear and sp < 3 it returns
\* the stack overflow error with pc and the status flags unchanged; with I set
\* it returns false and changes no register and no memory byte.
C13_IrqEntersWithStackRoom ==
    ghost.op = "irq" =>
        IF ghost.pre.status.interrupt THEN IrqIgnored
        ELSE IF ghost.pre.sp >= 3 THEN IrqEntered
        ELSE /\ ghost.out = "StackOverflow" /\ ~ghost.taken
             /\ cpu.registers.pc = ghost.pre.pc
             /\ cpu.registers.status = ghost.pre.status

C13_Witness ==
    /\ ghost.op = "irq" /\ ~ghost.pre.status.interrupt /\ ghost.pre.sp = 253
    /\ ghost.taken /\ cpu.registers.pc = 49408 /\ cpu.registers.sp = 250
    /\ cpu.registers.status.interrupt

\* The address an indexed operand starts from, before the index register is
\* added: the operand word of AbsoluteX / AbsoluteY, the zero page pointer of
\* IndirectY.
BaseAddress(ins, bytes) ==
    IF ins.mode = "IndirectY"
    THEN MemByte(bytes, ins.arg) + 256 * MemByte(bytes, ins.arg + 1)
    ELSE ins.arg

\* The address the operand is read from.
EffectiveAddress(ins, bytes, reg) ==
    (BaseAddress(ins, bytes) + IF ins.mode = "AbsoluteX" THEN reg.x ELSE reg.y) % 65536

\* C14: for ADC, AND, CMP, EOR, LDA, LDX, LDY, ORA and SBC with AbsoluteX,
\* AbsoluteY or IndirectY addressing, the cycle count returned is the base
\* count plus one exactly when the effective address and the base address
\* differ in their high byte, and the base count otherwise, whatever pc is.
C14_PenaltyIffIndexCrossesPage ==
    (/\ ghost.op = "step" /\ ghost.out = "ok"
     /\ ghost.ins.op \in {"Adc", "And", "Cmp", "Eor", "Lda", "Ldx", "Ldy", "Ora", "Sbc"}
     /\ ghost.ins.mode \in {"AbsoluteX", "AbsoluteY", "IndirectY"})
        => ghost.cycles = ghost.ins.cycles +
               IF BaseAddress(ghost.ins, ghost.premem.bytes) \div 256
                      # EffectiveAddress(ghost.ins, ghost.premem.bytes, ghost.pre) \div 256
               THEN 1 ELSE 0

\* The operand byte of the instruction decoded by the last step: the
\* immediate value, or the byte at the effective address.
OperandValue ==
    IF ghost.ins.mode = "Immediate" THEN ghost.ins.arg
    ELSE MemByte(ghost.premem.bytes,
                 EffectiveAddress(ghost.ins, ghost.premem.bytes, ghost.pre))

\* A + M + C of the last step.
AdcSum == ghost.pre.acc + OperandValue + (IF ghost.pre.status.carry THEN 1 ELSE 0)

\* C15: with D clear, ADC leaves acc = (A + M + C) mod 256, carry set iff
\* A + M + C > 255, overflow set iff A and M have the same sign and the result
\* has the other sign, zero set iff the result is 0 and negative set iff bit 7
\* of the result is set.
C15_AdcAddsOperandAndCarry ==
    (ghost.op = "step" /\ ghost.out = "ok" /\ ghost.ins.op = "Adc"
         /\ ~ghost.pre.status.decimal)
        => /\ cpu.registers.acc = AdcSum % 256
           /\ cpu.registers.status.carry = (AdcSum > 255)
           /\ cpu.registers.status.overflow =
                  (/\ (ghost.pre.acc >= 128) = (OperandValue >= 128)
                   /\ (ghost.pre.acc >= 128) # (AdcSum % 256 >= 128))
           /\ cpu.registers.status.zero = (AdcSum % 256 = 0)
           /\ cpu.registers.status.negative = (AdcSum % 256 >= 128)

\* C16: BRK pushes PC high, PC low and the status byte with B = 1, then sets
\* the I flag and loads pc from 0xfffe/0xffff, and returns 7 cycles; after a
\* BRK the I flag is always set.
C16_BrkSetsInterruptDisable ==
    (ghost.op = "step" /\ ghost.out = "ok" /\ ghost.ins.op = "Brk")
        => /\ MemByte(mem.bytes, STACK_BOTTOM + ghost.pre.sp) = (ghost.pre.pc + 1) \div 256
           /\ MemByte(mem.bytes, STACK_BOTTOM + ghost.pre.sp - 1) = (ghost.pre.pc + 1) % 256
           /\ bit_is_set(MemByte(mem.bytes, STACK_BOTTOM + ghost.pre.sp - 2), 4)
           /\ cpu.registers.pc = MemByte(ghost.premem.bytes, IRQ_VECTOR)
                                 + 256 * MemByte(ghost.premem.bytes, IRQ_VECTOR + 1)
           /\ ghost.cycles = 7
           /\ cpu.registers.status.interrupt

(***************************************************************************)
(* The keyboard scan and the IC latches: System::keydown,                  *)
(* System::clear_keyboard_buffer and System::step with a CPU write to one  *)
(* of the VIA's registers.                                                 *)
(*                                                                         *)
(* The host presses the keys 10, 11, 12, ... one after the other.  ghost   *)
(* describes the last call: pre is the VIA's registers before it, write    *)
(* the CPU write a step reacted to, sig the signalled mask as              *)
(* process_reads_and_writes left it (before the drain); keys lists the     *)
(* keys pressed since the keyboard buffer was last cleared, oldest first.  *)
(***************************************************************************)
\* Stores into the VIA window: DDRA 0x7f and 0xff; Port A probes for A (4,7),
\* B (4,1), Q (1,0) and for A with bit 7 set; Port B commands for latches 3
\* (on, off), 7 (on), 0 (on) and 4 (on).
ScanWrites ==
    {<<PA_DDR_REG, 127>>, <<PA_DDR_REG, 255>>,
     <<PA2_IO_REG, 71>>, <<PA2_IO_REG, 65>>, <<PA2_IO_REG, 16>>, <<PA2_IO_REG, 199>>,
     <<PB_IO_REG, 11>>, <<PB_IO_REG, 3>>, <<PB_IO_REG, 15>>, <<PB_IO_REG, 8>>,
     <<PB_IO_REG, 12>>}

InitScan ==
    /\ mem = with_hw_ranges(MapNew, <<HwWindow>>)
    /\ cpu = CpuNew
    /\ via = SystemNew
    /\ crtc = CrtcNew
    /\ emu = IdleEmu
    /\ host = [keys |-> 0, writes |-> 0]
    /\ ghost = [op |-> "new", pre |-> RegistersDefault, write |-> None, sig |-> 0,
                keys |-> <<>>]

\* System::step after the CPU stored w[2] at w[1].
ScanWrite(w) ==
    /\ host.writes < MaxScanWrites
    /\ \E r \in {ViaStep(via, MapWrite(mem, w[1], w[2]), 2)} :
           /\ via' = r.via
           /\ mem' = clear_last_hw_access(r.mem)
    /\ ghost' = [ghost EXCEPT
                     !.op = "write", !.pre = via.registers, !.write = Some(w),
                     !.sig = process_reads_and_writes(via, Some(w))
                                 .registers.interrupts.signalled]
    /\ host' = [host EXCEPT !.writes = host.writes + 1]
    /\ UNCHANGED <<cpu, crtc, emu>>

\* System::keydown
ScanKeyDown ==
    /\ host.keys < MaxScanKeys
    /\ via' = SystemKeydown(via, 10 + host.keys)
    /\ ghost' = [ghost EXCEPT !.op = "key", !.pre = via.registers, !.write = None,
                              !.keys = Append(ghost.keys, 10 + host.keys)]
    /\ host' = [host EXCEPT !.keys = host.keys + 1]
    /\ UNCHANGED <<mem, cpu, crtc, emu>>

\* System::clear_keyboard_buffer
ScanClear ==
    /\ ghost.op = "key"
    /\ via' = SystemClearKeyboardBuffer(via)
    /\ ghost' = [ghost EXCEPT !.op = "clear", !.pre = via.registers, !.write = None,
                              !.keys = <<>>]
    /\ UNCHANGED <<mem, cpu, crtc, emu, host>>

NextScan ==
    \/ \E w \in ScanWrites : ScanWrite(w)
    \/ ScanKeyDown
    \/ ScanClear

SpecScan == InitScan /\ [][NextScan]_vars

(***************************************************************************)
(* Properties of SpecScan                                                  *)
(***************************************************************************)
\* The keys the ring should hold: the last 16 pressed since the last clear.
HeldKeys ==
    {ghost.keys[n] : n \in {j \in 1..Len(ghost.keys) : j > Len(ghost.keys) - 16}}

\* Some held key maps through KEY_MAP to row (p >> 4) & 7, column p & 0x0f.
KeyHeldAt(p) ==
    \E k \in KEY_MAP : k[1] \in HeldKeys /\ k[2] = <<(p \div 16) % 8, p % 16>>

\* The last call was a step reacting to a CPU write to Port A (0xfe4f).
PortAWritten ==
    ghost.op = "write" /\ Unwrap(ghost.write)[1] = PA2_IO_REG

\* C17: with the keyboard-write-enable latch off, a CPU write of the probe p to
\* Port A leaves bit 7 of Port A's I/O latch set iff some key held in the ring
\* maps to row (p >> 4) & 7 and column p & 0x0f; and after key_down the scan
\* reports as down exactly the (row, col) codes of the keys in the ring.
C17_ProbeReportsHeldKey ==
    /\ (PortAWritten /\ ~is_keyboard_write_enabled(ghost.pre))
           => (bit_is_set(via.registers.pa2.io, 7)
                   <=> KeyHeldAt(Unwrap(ghost.write)[2]))
    /\ ghost.op = "key"
           => \A p \in 0..127 :
                  is_emulated_key_down(via.registers.keyboard_buffer, p) <=> KeyHeldAt(p)

\* C18: after k >= 1 key_down calls since the last clear (k = 16 and k > 16
\* included) the ring counts as non-empty, each of the last min(k, 16) keys is
\* held for the scan, and a CPU write to Port A signals the Keyboard interrupt.
C18_RingKeepsLastSixteen ==
    Len(ghost.keys) >= 1 =>
        /\ KbLen(via.registers.keyboard_buffer) > 0
        /\ \A k \in KEY_MAP :
               k[1] \in HeldKeys
                   => is_emulated_key_down(via.registers.keyboard_buffer,
                                           16 * k[2][1] + k[2][2])
        /\ PortAWritten => bit_is_set(ghost.sig, Keyboard)

\* C19: a CPU write of v to Port B (0xfe40) sets exactly the IC latch with
\* index v & 0x07 to bit 3 of v and leaves the other seven latches unchanged; the
\* keyboard-write-enable latch changes only when v & 0x07 = 3.
C19_PortBSetsSelectedLatch ==
    (ghost.op = "write" /\ Unwrap(ghost.write)[1] = PB_IO_REG)
        => via.registers.latches =
               [ghost.pre.latches EXCEPT ![Unwrap(ghost.write)[2] % 8] =
                                             bit_is_set(Unwrap(ghost.write)[2], 3)]

(***************************************************************************)
(* The CRTC on its own: Crtc6845::step after a CPU write to its register   *)
(* window or to the ULA, or after no write, for the cycle count of an      *)
(* instruction.                                                            *)
(*                                                                         *)
(* ghost describes the last call: pre is the CRTC before it and entered    *)
(* the number of times the scanout entered NewFrame during it.             *)
(***************************************************************************)
\* Stores the CRTC reacts to: select register 1 (horizontal displayed), 6
\* (vertical displayed), 13 (screen start low); data 0 and 1; teletext mode.
CrtcWrites ==
    {<<CRTC_ADDR_REG, TOTAL_HORIZ_DISP>>, <<CRTC_ADDR_REG, TOTAL_VERT_DISP>>,
     <<CRTC_ADDR_REG, SCREEN_START_LO>>, <<CRTC_DATA_REG, 0>>, <<CRTC_DATA_REG, 1>>,
     <<ULA_CONTROL_REG, 2>>}

\* The scanout has just entered a frame: NewFrame falls through to
\* DisplayingLine(start, 0, 0, 0) in the same pass of the loop, which renders
\* the first cell and breaks at column 1, or never breaks when
\* horizontal_displayed is 0.
JustEntered(r) ==
    /\ r.crtc.state.tag = "DisplayingLine"
    /\ r.crtc.state.l = 0 /\ r.crtc.state.sl = 0
    /\ \/ r.out = "ok" /\ r.crtc.state.c = 1
       \/ r.out = "hang" /\ r.crtc.state.c = 0

\* The number of cycles of `for _ in 0..cycles` in which NewFrame was entered.
RECURSIVE FramesEntered(_, _, _)
FramesEntered(c, cycles, build) ==
    IF cycles = 0 THEN 0
    ELSE LET r == CrtcCycle(c, build)
         IN  (IF JustEntered(r) THEN 1 ELSE 0)
                 + IF r.out # "ok" THEN 0 ELSE FramesEntered(r.crtc, cycles - 1, build)

\* The number of cycles of `for _ in 0..cycles` that reached the rendering
\* branch of DisplayingLine (the one that advances the column and breaks).
RECURSIVE CellsRendered(_, _, _)
CellsRendered(c, cycles, build) ==
    IF cycles = 0 THEN 0
    ELSE LET r == CrtcCycle(c, build)
         IN  (IF r.out = "ok" /\ r.crtc.state.tag = "DisplayingLine" THEN 1 ELSE 0)
                 + IF r.out # "ok" THEN 0 ELSE CellsRendered(r.crtc, cycles - 1, build)

InitCrtc ==
    /\ mem = with_hw_ranges(MapNew, <<HwWindow>>)
    /\ cpu = CpuNew
    /\ via = SystemNew
    /\ crtc = CrtcNew
    /\ \E build \in Builds : emu = [IdleEmu EXCEPT !.build = build]
    /\ host = [ops |-> 0]
    /\ ghost = [op |-> "new", pre |-> CrtcNew, entered |-> 0, write |-> None,
                sel |-> None, cells |-> 0]

\* Crtc6845::step for `cycles` cycles after the CPU write `write` (None: the
\* instruction wrote to no hardware register).
CrtcStepOp(write, cycles) ==
    /\ host.ops < MaxCrtcOps
    /\ emu.result \notin {"panic", "hang"}
    /\ \E m \in {IF IsSome(write)
                 THEN MapWrite(mem, Unwrap(write)[1], Unwrap(write)[2])
                 ELSE mem} :
           /\ \E r \in {CrtcStep(crtc, m, cycles, emu.build)} :
                  /\ crtc' = r.crtc
                  /\ emu' = [emu EXCEPT !.result = r.out, !.cycles = cycles]
           /\ mem' = clear_last_hw_access(m)
           /\ ghost' = [op |-> "step", pre |-> crtc,
                        entered |-> IF CrtcReact(crtc, m.last_hw_write).ok
                                    THEN FramesEntered(
                                             CrtcReact(crtc, m.last_hw_write).crtc,
                                             cycles, emu.build)
                                    ELSE 0,
                        write |-> write,
                        sel |-> IF IsSome(write) /\ Unwrap(write)[1] = CRTC_ADDR_REG
                                THEN Some(Unwrap(write)[2]) ELSE ghost.sel,
                        cells |-> IF CrtcReact(crtc, m.last_hw_write).ok
                                  THEN CellsRendered(
                                           CrtcReact(crtc, m.last_hw_write).crtc,
                                           cycles, emu.build)
                                  ELSE 0]
    /\ host' = [host EXCEPT !.ops = host.ops + 1]
    /\ UNCHANGED <<cpu, via>>

NextCrtc ==
    \E w \in {None} \cup {Some(x) : x \in CrtcWrites}, n \in {2, 3} : CrtcStepOp(w, n)

SpecCrtc == InitCrtc /\ [][NextCrtc]_vars

\* The start address computed from the current register values.
StartAddress ==
    calc_start_addr(crtc.registers[SCREEN_START_HI], crtc.registers[SCREEN_START_LO],
                    is_teletext(crtc), emu.build).val

\* horizontal_displayed > 0, vertical_displayed > 0 and start address > 0.
FrameConditions ==
    /\ crtc.registers[TOTAL_HORIZ_DISP] > 0
    /\ crtc.registers[TOTAL_VERT_DISP] > 0
    /\ StartAddress > 0

\* C20: every time the scanout enters NewFrame, from NotInitialized or at the
\* end of a frame, also after registers were reprogrammed mid-run,
\* horizontal_displayed > 0, vertical_displayed > 0 and the computed start
\* address > 0 hold for the current register values; and from NotInitialized it
\* enters NewFrame as soon as all three hold.
C20_NewFrameOnlyWhenProgrammed ==
    ghost.op = "step" /\ emu.result # "panic" =>
        /\ ghost.entered > 0 => FrameConditions
        /\ (ghost.pre.state.tag = "NotInitialized" /\ FrameConditions)
               => ghost.entered > 0

(***************************************************************************)
(* The stack on its own: push_stack and pop_stack applied to every stack   *)
(* pointer.  The read marker of the memory is either empty or names a      *)
(* hardware register, so that a read of the stack page (which empties it)  *)
(* can be told from no read.                                               *)
(*                                                                         *)
(* ghost describes the last call (op, the value pushed arg, the registers  *)
(* pre and memory premem it was made with, its outcome out and the byte    *)
(* val a pop returned) and, in prev, the call before it.                   *)
(***************************************************************************)
NoCall == [op |-> "new", arg |-> 0, sp |-> 0, out |-> "ok"]

InitStack ==
    /\ \E sp \in 0..255, rd \in {None, Some(CRTC_ADDR_REG)} :
           /\ cpu = [registers |-> [RegistersNew EXCEPT !.sp = sp]]
           /\ mem = [with_hw_ranges(MapNew, <<HwWindow>>) EXCEPT !.last_hw_read = rd]
    /\ via = SystemNew
    /\ crtc = CrtcNew
    /\ emu = IdleEmu
    /\ host = [ops |-> 0]
    /\ ghost = [op |-> "new", arg |-> 0, pre |-> RegistersNew, premem |-> MapNew,
                out |-> "ok", val |-> 0, prev |-> NoCall]

\* What the last call leaves in prev for the next one.
LastCall == [op |-> ghost.op, arg |-> ghost.arg, sp |-> ghost.pre.sp, out |-> ghost.out]

\* push_stack(v, mem, reg)
PushOp(v) ==
    /\ host.ops < MaxStackOps
    /\ \E r \in {push_stack(v, mem, cpu.registers)} :
           /\ cpu' = [cpu EXCEPT !.registers = r.reg]
           /\ mem' = r.m
           /\ ghost' = [op |-> "push", arg |-> v, pre |-> cpu.registers, premem |-> mem,
                        out |-> r.out, val |-> 0, prev |-> LastCall]
    /\ host' = [host EXCEPT !.ops = host.ops + 1]
    /\ UNCHANGED <<via, crtc, emu>>

\* pop_stack(mem, reg)
PopOp ==
    /\ host.ops < MaxStackOps
    /\ \E r \in {pop_stack(mem, cpu.registers)} :
           /\ cpu' = [cpu EXCEPT !.registers = r.reg]
           /\ mem' = r.m
           /\ ghost' = [op |-> "pop", arg |-> 0, pre |-> cpu.registers, premem |-> mem,
                        out |-> r.out, val |-> r.val, prev |-> LastCall]
    /\ host' = [host EXCEPT !.ops = host.ops + 1]
    /\ UNCHANGED <<via, crtc, emu>>

NextStack ==
    \/ \E v \in {1, 128, 255} : PushOp(v)
    \/ PopOp

SpecStack == InitStack /\ [][NextStack]_vars

\* The last two calls were a push and, immediately after it, a pop; the pop
\* succeeded, returned the byte pushed and left sp where it was before the push.
PushPopRestored ==
    /\ ghost.out = "ok"
    /\ ghost.val = ghost.prev.arg
    /\ cpu.registers.sp = ghost.prev.sp

\* C21 as stated: for every sp in 0x00..0xff and every byte v, push_stack(v)
\* followed immediately by pop_stack succeeds, returns v and leaves sp at its
\* original value.
C21_PushPopAtEverySp ==
    /\ ghost.op = "push" => ghost.out = "ok"
    /\ (ghost.op = "pop" /\ ghost.prev.op = "push") => PushPopRestored

\* C21: for every sp in 0x01..0xff and every byte v, push_stack(v) followed
\* immediately by pop_stack succeeds, returns v and leaves sp at its original
\* value; with sp = 0x00 the push fails with StackError::Overflow.
C21_PushPopAboveStackEnd ==
    /\ ghost.op = "push" => (ghost.out = "ok" <=> ghost.pre.sp >= 1)
    /\ (ghost.op = "pop" /\ ghost.prev.op = "push" /\ ghost.prev.sp >= 1)
           => PushPopRestored

C21_Witness ==
    /\ ghost.op = "pop" /\ ghost.prev.op = "push" /\ ghost.prev.sp = 255
    /\ ghost.val = 128 /\ cpu.registers.sp = 255 /\ ghost.out = "ok"

\* C22: push_stack with sp = 0 fails with StackError::Overflow and pop_stack
\* with sp = 0xff fails with StackError::Underflow; in both failures sp keeps
\* its value, the failed pop reads no memory, and the failed push has stored
\* its byte at 0x0100 + sp; no other sp makes push or pop fail.
C22_StackFaultsAtTheEnds ==
    /\ ghost.op = "push" =>
           /\ ghost.out = IF ghost.pre.sp = 0 THEN "StackOverflow" ELSE "ok"
           /\ ghost.out # "ok" =>
                  /\ cpu.registers.sp = ghost.pre.sp
                  /\ MemByte(mem.bytes, STACK_BOTTOM + ghost.pre.sp) = ghost.arg
    /\ ghost.op = "pop" =>
           /\ ghost.out = IF ghost.pre.sp = 255 THEN "StackUnderflow" ELSE "ok"
           /\ ghost.out # "ok" =>
                  /\ cpu.registers.sp = ghost.pre.sp
                  /\ mem = ghost.premem

C22_Witness ==
    /\ ghost.op = "push" /\ ghost.out = "StackOverflow" /\ ghost.arg = 255
    /\ cpu.registers.sp = 0 /\ MemByte(mem.bytes, STACK_BOTTOM) = 255

(***************************************************************************)
(* Control flow: Cpu::step on a subroutine call or a branch.               *)
(*                                                                         *)
(* Memory holds the instruction at pc and an RTS at 0x1234; host keeps the *)
(* pc and sp the first step started with.                                  *)
(***************************************************************************)
\* JSR $1234, and the eight branches with the offsets +5, -3, +127 and -128.
FlowCodes ==
    {<<32, 52, 18>>}
        \cup {<<b, o>> : b \in {144, 176, 240, 48, 208, 16, 80, 112},
                         o \in {5, 253, 127, 128}}

InitFlow ==
    /\ \E code \in FlowCodes, pc \in {4096, 4336, 32752, 65520}, sp \in {0, 1, 2, 255},
          carry \in BOOLEAN, zero \in BOOLEAN, negative \in BOOLEAN,
          overflow \in BOOLEAN, build \in Builds :
           /\ mem = [with_hw_ranges(MapNew, <<HwWindow>>) EXCEPT !.bytes =
                         ImageAt(pc, code) @@ ImageAt(4660, <<96>>)]
           /\ cpu = [registers |->
                         [RegistersNew EXCEPT !.pc = pc, !.sp = sp,
                                              !.status.carry = carry,
                                              !.status.zero = zero,
                                              !.status.negative = negative,
                                              !.status.overflow = overflow]]
           /\ emu = [IdleEmu EXCEPT !.build = build]
           /\ host = [ops |-> 0, pc0 |-> pc, sp0 |-> sp]
    /\ via = SystemNew
    /\ crtc = CrtcNew
    /\ ghost = [op |-> "new", pre |-> RegistersNew, premem |-> MapNew,
                ins |-> decode_instruction(<<>>).ins, out |-> "ok", cycles |-> 0,
                taken |-> FALSE]

SpecFlow == InitFlow /\ [][CpuStepOp]_vars

\* The last step executed the instruction op and returned Ok.
Executed(op) == ghost.op = "step" /\ ghost.out = "ok" /\ ghost.ins.op = op

BranchCondition ==
    CASE ghost.ins.op = "Bcc" -> ~ghost.pre.status.carry
      [] ghost.ins.op = "Bcs" -> ghost.pre.status.carry
      [] ghost.ins.op = "Beq" -> ghost.pre.status.zero
      [] ghost.ins.op = "Bne" -> ~ghost.pre.status.zero
      [] ghost.ins.op = "Bmi" -> ghost.pre.status.negative
      [] ghost.ins.op = "Bpl" -> ~ghost.pre.status.negative
      [] ghost.ins.op = "Bvs" -> ghost.pre.status.overflow
      [] ghost.ins.op = "Bvc" -> ~ghost.pre.status.overflow
      [] OTHER -> FALSE

\* pc before the branch is executed (past its two bytes), and pc + offset.
BranchFrom == ghost.pre.pc + 2

BranchTarget == (BranchFrom + ghost.ins.arg + 65536) % 65536

\* C24: each of the eight branches, when its condition holds, sets pc to
\* pc + signed offset (mod 2^16) and returns base_cycles + 1, plus 1 more iff
\* the new pc lies in another 256-byte page than the pc before the branch; when
\* the condition does not hold, pc is unchanged and base_cycles is returned.
C24_BranchTargetAndCycles ==
    (ghost.op = "step"
         /\ ghost.ins.op \in {"Bcc", "Bcs", "Beq", "Bne", "Bmi", "Bpl", "Bvs", "Bvc"})
        => /\ ghost.out = "ok"
           /\ cpu.registers.pc = IF BranchCondition THEN BranchTarget ELSE BranchFrom
           /\ ghost.cycles =
                  IF ~BranchCondition THEN ghost.ins.cycles
                  ELSE ghost.ins.cycles + 1
                           + IF BranchTarget \div 256 # BranchFrom \div 256 THEN 1 ELSE 0

(***************************************************************************)
(* The interrupt registers: System::step after a CPU write to IER (0xfe4e) *)
(* or IFR (0xfe4d), on a VIA whose interrupt state is                      *)
(* Interrupts::new(flags, enabled).                                        *)
(***************************************************************************)
IrqWrites ==
    {<<IER_REGISTER, v>> : v \in {0, 2, 127, 128, 131, 162, 255}}
        \cup {<<IFR_REGISTER, v>> : v \in {0, 2, 33, 127, 161, 255}}

InitIrq ==
    /\ mem = with_hw_ranges(MapNew, <<HwWindow>>)
    /\ cpu = CpuNew
    /\ \E flags \in {0, 2, 3, 35, 67}, enabled \in {0, 1, 127, 131} :
           via = [SystemNew EXCEPT !.registers.interrupts =
                      [flags |-> flags, enabled |-> enabled, signalled |-> 0]]
    /\ crtc = CrtcNew
    /\ emu = IdleEmu
    /\ host = [keys |-> 0, writes |-> 0]
    /\ ghost = [op |-> "new", pre |-> RegistersDefault, write |-> None, sig |-> 0,
                keys |-> <<>>]

NextIrq == \E w \in IrqWrites : ScanWrite(w)

SpecIrq == InitIrq /\ [][NextIrq]_vars

\* The last call was a step reacting to a CPU write to the register at addr.
Written(addr) == ghost.op = "write" /\ Unwrap(ghost.write)[1] = addr

\* The bits 0..6 of the operand of that write.
WrittenBits == BitAnd(Unwrap(ghost.write)[2], 127)

\* C25: an IER write with operand v sets the enable bits v & 0x7f when bit 7 of
\* v is 1 and clears them when bit 7 of v is 0, leaving every other enable bit
\* and all interrupt flags unchanged; from the enable mask 0x83 a write of 0x02
\* yields 0x01, and a write of 0xa2 then yields 0xa3.
C25_IerWriteSetsOrClears ==
    Written(IER_REGISTER) =>
        /\ BitAnd(via.registers.interrupts.enabled, 127) =
               IF Unwrap(ghost.write)[2] >= 128
               THEN BitOr(BitAnd(ghost.pre.interrupts.enabled, 127), WrittenBits)
               ELSE BitAnd(BitAnd(ghost.pre.interrupts.enabled, 127), 127 - WrittenBits)
        /\ via.registers.interrupts.flags = ghost.pre.interrupts.flags
        /\ (ghost.pre.interrupts.enabled = 131 /\ Unwrap(ghost.write)[2] = 2)
               => via.registers.interrupts.enabled = 1
        /\ (ghost.pre.interrupts.enabled = 1 /\ Unwrap(ghost.write)[2] = 162)
               => via.registers.interrupts.enabled = 163

C25_Witness ==
    /\ Written(IER_REGISTER) /\ host.writes = 2
    /\ ghost.pre.interrupts.enabled = 1 /\ Unwrap(ghost.write)[2] = 162
    /\ via.registers.interrupts.enabled = 163

\* C26: an IFR write with operand v clears exactly the flag bits 0..6 that are
\* set in v, leaves the other flag bits and the enable mask unchanged, and
\* recomputes bit 7 of the IFR value; from the flags 0x23 a write of 0xa1 yields
\* 0x82.
C26_IfrWriteClearsWrittenBits ==
    Written(IFR_REGISTER) =>
        /\ BitAnd(via.registers.interrupts.flags, 127) =
               BitAnd(BitAnd(ghost.pre.interrupts.flags, 127), 127 - WrittenBits)
        /\ via.registers.interrupts.enabled = ghost.pre.interrupts.enabled
        /\ FlagsOf(via.registers.interrupts) =
               IF BitAnd(via.registers.interrupts.flags, 127) # 0
               THEN 128 + BitAnd(via.registers.interrupts.flags, 127) ELSE 0
        /\ MemByte(mem.bytes, IFR_REGISTER) = FlagsOf(via.registers.interrupts)
        /\ (ghost.pre.interrupts.flags = 35 /\ Unwrap(ghost.write)[2] = 161)
               => via.registers.interrupts.flags = 130

C26_Witness ==
    /\ Written(IFR_REGISTER)
    /\ ghost.pre.interrupts.flags = 35 /\ Unwrap(ghost.write)[2] = 161
    /\ via.registers.interrupts.flags = 130
    /\ MemByte(mem.bytes, IFR_REGISTER) = 130

(***************************************************************************)
(* Programming the CRTC: a program that selects registers through 0xfe00   *)
(* and stores to them through 0xfe01, among instructions that write        *)
(* elsewhere or nowhere.  ghost.write is the write the last step reacted   *)
(* to, ghost.sel the last value the program wrote to 0xfe00.               *)
(***************************************************************************)
SelWrites ==
    {<<CRTC_ADDR_REG, r>> : r \in {0, SCREEN_START_HI, 17}}
        \cup {<<CRTC_DATA_REG, d>> : d \in {0, 7, 255}}
        \cup {<<ULA_CONTROL_REG, 2>>, <<IER_REGISTER, 127>>}

NextSel == \E w \in {None} \cup {Some(x) : x \in SelWrites} : CrtcStepOp(w, 2)

SpecSel == InitCrtc /\ [][NextSel]_vars

\* The last step reacted to a CPU write to addr.
CrtcWritten(addr) ==
    ghost.op = "step" /\ IsSome(ghost.write) /\ Unwrap(ghost.write)[1] = addr

\* C27: once the program has written r (0 <= r < 18) to 0xfe00, a write of d to
\* 0xfe01 in any later instruction leaves d in CRTC register r and the other
\* 17 registers unchanged; the selection persists across the instructions in
\* between that do not write 0xfe00; a write to 0xfe00 alone changes no
\* register.
C27_SelectThenStore ==
    /\ (CrtcWritten(CRTC_DATA_REG) /\ IsSome(ghost.sel) /\ Unwrap(ghost.sel) < 18)
           => crtc.registers =
                  [ghost.pre.registers EXCEPT
                       ![Unwrap(ghost.sel)] = Unwrap(ghost.write)[2]]
    /\ crtc.selected_reg = ghost.sel
    /\ (ghost.op = "step" /\ ~CrtcWritten(CRTC_DATA_REG))
           => crtc.registers = ghost.pre.registers

C27_Witness ==
    /\ CrtcWritten(CRTC_DATA_REG) /\ Unwrap(ghost.write)[2] = 255
    /\ ghost.sel = Some(17)
    /\ crtc.registers[17] = 255 /\ crtc.registers[SCREEN_START_HI] = 7
    /\ crtc.registers[0] = 0

(***************************************************************************)
(* Raw views of the memory: region, region_mut and their _from and _to     *)
(* variants, asked for ranges around the declared hardware windows.  A     *)
(* view is the slice &bytes[range]: where it starts and how long it is.    *)
(* ghost is the last request (op, range) and its result res.               *)
(***************************************************************************)
\* ranges_overlap(section, &rhs)
ranges_overlap(section, rhs) ==
    \/ section.start >= rhs.start /\ section.start < rhs.end
    \/ section.end > rhs.start /\ section.end <= rhs.end
    \/ rhs.start <= section.start /\ rhs.end >= section.end
    \/ rhs.start >= section.start /\ rhs.end <= section.end

\* Map::region and Map::region_mut.  &bytes[range] panics where the range ends
\* past the memory or before its start.
region(m, range) ==
    IF range.start > range.end \/ range.end > MEM_SIZE
    THEN [out |-> "panic", base |-> 0, len |-> 0]
    ELSE [out |-> IF \E i \in DOMAIN m.hw_ranges :
                         ranges_overlap(m.hw_ranges[i], range)
                  THEN "RawAccessToHardwareError" ELSE "ok",
          base |-> range.start,
          len |-> range.end - range.start]

\* region_from and region_from_mut
region_from(m, start) == region(m, Range(start, MEM_SIZE))

\* region_to and region_to_mut
region_to(m, end) == region(m, Range(0, end))

\* Range ends: the ends of the memory, of both windows, and addresses on either
\* side of them (0xfd04, 0xfe04, 0xfe25, 0xfedc, 0xff25 are those of the map's
\* own tests).
RegionEnds ==
    {0, 768, 64511, 64512, 64513, 64767, 64768, 64772, 65023, 65024, 65028, 65061,
     65244, 65279, 65280, 65281, 65317, 65535, 65536}

InitRegion ==
    /\ \E ranges \in {<<>>, <<HwWindow>>, <<LowWindow, HwWindow>>} :
           mem = with_hw_ranges(MapNew, ranges)
    /\ cpu = CpuNew
    /\ via = SystemNew
    /\ crtc = CrtcNew
    /\ emu = IdleEmu
    /\ host = [ops |-> 0]
    /\ ghost = [op |-> "new", range |-> Range(0, 0), res |-> region(MapNew, Range(0, 0))]

\* map.region(s..e) and map.region_mut(s..e)
RegionOp(s, e) ==
    /\ ghost' = [op |-> "region", range |-> Range(s, e), res |-> region(mem, Range(s, e))]
    /\ UNCHANGED <<mem, cpu, via, crtc, emu, host>>

\* map.region_from(s..) and map.region_from_mut(s..)
RegionFromOp(s) ==
    /\ ghost' = [op |-> "region_from", range |-> Range(s, MEM_SIZE),
                 res |-> region_from(mem, s)]
    /\ UNCHANGED <<mem, cpu, via, crtc, emu, host>>

\* map.region_to(..e) and map.region_to_mut(..e)
RegionToOp(e) ==
    /\ ghost' = [op |-> "region_to", range |-> Range(0, e), res |-> region_to(mem, e)]
    /\ UNCHANGED <<mem, cpu, via, crtc, emu, host>>

NextRegion ==
    \/ \E s \in RegionEnds, e \in RegionEnds : s <= e /\ RegionOp(s, e)
    \/ \E s \in RegionEnds : RegionFromOp(s)
    \/ \E e \in RegionEnds : RegionToOp(e)

SpecRegion == InitRegion /\ [][NextRegion]_vars

\* Two half-open ranges have an address in common.
ShareAnAddress(a, b) ==
    \E x \in a.start..(a.end - 1) : x >= b.start /\ x < b.end

\* C28: region, region_mut and their _from and _to variants return
\* RawAccessToHardwareError exactly when the requested half-open range has an
\* address in common with some declared half-open hardware window, and Ok
\* otherwise; the view returned covers exactly the requested range.
C28_RegionErrIffOverlap ==
    ghost.op \in {"region", "region_from", "region_to"} =>
        /\ ghost.res.out =
               IF \E i \in DOMAIN mem.hw_ranges :
                      ShareAnAddress(ghost.range, mem.hw_ranges[i])
               THEN "RawAccessToHardwareError" ELSE "ok"
        /\ ghost.res.base = ghost.range.start
        /\ ghost.res.len = ghost.range.end - ghost.range.start

(***************************************************************************)
(* ROM placement: place_rom_at applied to a memory that already holds      *)
(* bytes and access markers, with ROMs of 1..MaxRomLen bytes (zero bytes   *)
(* included) placed inside the memory, across the start of the hardware    *)
(* window and at its very end.  ghost is the last call (op, location, rom) *)
(* and the memory premem it was made on.                                   *)
(***************************************************************************)
\* Every ROM of 1..MaxRomLen bytes over {0, 7}, as offset -> byte.
Roms == UNION {[0..(n - 1) -> {0, 7}] : n \in 1..MaxRomLen}

\* 0x8000, 0xfdff, 0xfffe, 0xffff
RomLocations == {PAGED_ROM_START, 65023, 65534, 65535}

InitRom ==
    /\ \E rd \in {None, Some(CRTC_ADDR_REG)}, wr \in {None, Some(<<CRTC_DATA_REG, 7>>)} :
           mem = [with_hw_ranges(MapNew, <<HwWindow>>) EXCEPT
                      !.bytes = (32769 :> 9) @@ (32771 :> 9) @@ (65022 :> 9)
                                    @@ (65024 :> 9) @@ (65535 :> 9),
                      !.last_hw_read = rd,
                      !.last_hw_write = wr]
    /\ cpu = CpuNew
    /\ via = SystemNew
    /\ crtc = CrtcNew
    /\ emu = IdleEmu
    /\ host = [ops |-> 0]
    /\ ghost = [op |-> "new", location |-> 0, rom |-> <<>>, premem |-> MapNew]

\* emu.place_rom_at(location, rom)
PlaceRomOp(location, rom) ==
    /\ host.ops < MaxRomOps
    /\ emu.result # "panic"
    /\ mem' = place_rom_at(mem, location, rom)
    /\ emu' = [emu EXCEPT !.result = place_rom_result(location, rom)]
    /\ ghost' = [op |-> "place", location |-> location, rom |-> rom, premem |-> mem]
    /\ host' = [host EXCEPT !.ops = host.ops + 1]
    /\ UNCHANGED <<cpu, via, crtc>>

NextRom == \E location \in RomLocations, rom \in Roms : PlaceRomOp(location, rom)

SpecRom == InitRom /\ [][NextRom]_vars

\* The addresses place_rom_at is to fill: location + i for
\* i < min(len, 0x10000 - location).
RomTarget ==
    {ghost.location + i : i \in {x \in DOMAIN ghost.rom : ghost.location + x < MEM_SIZE}}

\* C29: place_rom_at(addr, bytes) copies bytes[i] to addr + i for every
\* i < min(len, 0x10000 - addr), leaves every other byte and both hardware
\* access markers unchanged, and completes normally also when bytes is longer
\* than the space that remains.
C29_RomCopiedAndClamped ==
    ghost.op = "place" =>
        /\ emu.result = "ok"
        /\ \A a \in RomTarget : MemByte(mem.bytes, a) = ghost.rom[a - ghost.location]
        /\ \A a \in (DOMAIN mem.bytes \cup DOMAIN ghost.premem.bytes) \ RomTarget :
               MemByte(mem.bytes, a) = MemByte(ghost.premem.bytes, a)
        /\ mem.last_hw_read = ghost.premem.last_hw_read
        /\ mem.last_hw_write = ghost.premem.last_hw_write

(***************************************************************************)
(* Decoding: decode_instruction applied along a byte stream.  The stream is *)
(* assembled from three instructions (any first opcode byte, documented or  *)
(* not), each followed by as many operand bytes as the 6502 instruction set *)
(* gives its opcode, and then cut to any length.  host holds the stream     *)
(* code, the offsets starts at which its instructions begin, and the offset *)
(* reached; ghost the last call (decoding code[at..]) and its result.       *)
(***************************************************************************)
\* The documented opcodes of the 6502 without operand (implied, accumulator).
DocumentedNoOperand ==
    {0, 8, 10, 24, 40, 42, 56, 64, 72, 74, 88, 96, 104, 106, 120, 136, 138, 152, 154,
     168, 170, 184, 186, 200, 202, 216, 232, 234, 248}

\* The documented opcodes with a one-byte operand (immediate, relative, zero
\* page, zero page indexed, indexed indirect, indirect indexed).
DocumentedOneByte ==
    {1, 5, 6, 9, 16, 17, 21, 22, 33, 36, 37, 38, 41, 48, 49, 53, 54, 65, 69, 70, 73,
     80, 81, 85, 86, 97, 101, 102, 105, 112, 113, 117, 118, 129, 132, 133, 134, 144,
     145, 148, 149, 150, 160, 161, 162, 164, 165, 166, 169, 176, 177, 180, 181, 182,
     192, 193, 196, 197, 198, 201, 208, 209, 213, 214, 224, 225, 228, 229, 230, 233,
     240, 241, 245, 246}

\* The documented opcodes with a two-byte operand (absolute, absolute
\* indexed, indirect).
DocumentedTwoBytes ==
    {13, 14, 25, 29, 30, 32, 44, 45, 46, 57, 61, 62, 76, 77, 78, 89, 93, 94, 108, 109,
     110, 121, 125, 126, 140, 141, 142, 153, 157, 172, 173, 174, 185, 188, 189, 190,
     204, 205, 206, 217, 221, 222, 236, 237, 238, 249, 253, 254}

Documented == DocumentedNoOperand \cup DocumentedOneByte \cup DocumentedTwoBytes

DocumentedSize(b) ==
    CASE b \in DocumentedTwoBytes -> 2
      [] b \in DocumentedOneByte -> 1
      [] OTHER -> 0

\* Opcode b assembled with the operand bytes 0xfd, 0x12.
Assembled(b) == <<b>> \o SubSeq(<<253, 18>>, 1, DocumentedSize(b))

InitDecode ==
    /\ mem = MapNew
    /\ cpu = CpuNew
    /\ via = SystemNew
    /\ crtc = CrtcNew
    /\ emu = IdleEmu
    /\ \E b1 \in 0..255, b2 \in {101, 125, 234, 2} :
           \E n \in 0..(Len(Assembled(b1)) + Len(Assembled(b2)) + 2) :
               host = [code |-> SubSeq(Assembled(b1) \o Assembled(b2) \o Assembled(113),
                                       1, n),
                       starts |-> {0, Len(Assembled(b1)),
                                   Len(Assembled(b1)) + Len(Assembled(b2)),
                                   Len(Assembled(b1)) + Len(Assembled(b2)) + 2},
                       offset |-> 0,
                       calls |-> 0]
    /\ ghost = [op |-> "new", at |-> 0, res |-> decode_instruction(<<>>)]

\* decode_instruction(&code[offset..]), and offset += bytes where it succeeds.
DecodeOp ==
    /\ host.calls < MaxDecodes
    /\ ghost.op = "new" \/ ghost.res.ok
    /\ \E r \in {decode_instruction(SubSeq(host.code, host.offset + 1, Len(host.code)))} :
           /\ ghost' = [op |-> "decode", at |-> host.offset, res |-> r]
           /\ host' = [host EXCEPT !.offset = IF r.ok THEN host.offset + r.bytes
                                              ELSE host.offset,
                                   !.calls = host.calls + 1]
    /\ UNCHANGED <<mem, cpu, via, crtc, emu>>

SpecDecode == InitDecode /\ [][DecodeOp]_vars

\* The bytes the last call was given.
Decoded == SubSeq(host.code, ghost.at + 1, Len(host.code))

\* C30: decode_instruction accepts exactly the 151 documented opcode bytes; the
\* length it returns is 1 plus the operand size of the addressing mode (0 for
\* Implied and Accumulator, 1 for Immediate, Relative, ZeroPage, ZeroPageX,
\* ZeroPageY, IndirectX and IndirectY, 2 little-endian bytes for Absolute,
\* AbsoluteX, AbsoluteY and Indirect), so that decoding at offset + length
\* meets the next instruction; any other opcode byte, and an operand that is
\* cut off, give InstructionDecodeError.
C30_DecodeDocumentedOpcodes ==
    /\ Cardinality(Documented) = 151
    /\ ghost.op = "decode" =>
        /\ ghost.at \in host.starts
        /\ ghost.res.ok <=>
               /\ Decoded # <<>>
               /\ Decoded[1] \in Documented
               /\ Len(Decoded) >= 1 + DocumentedSize(Decoded[1])
        /\ ghost.res.ok =>
               /\ ghost.res.bytes = 1 + DocumentedSize(Decoded[1])
               /\ ghost.res.bytes =
                      1 + (CASE ghost.res.ins.mode \in {"Implied", "Accumulator"} -> 0
                             [] ghost.res.ins.mode \in
                                    {"Immediate", "Relative", "ZeroPage", "ZeroPageX",
                                     "ZeroPageY", "IndirectX", "IndirectY"} -> 1
                             [] ghost.res.ins.mode \in
                                    {"Absolute", "AbsoluteX", "AbsoluteY", "Indirect"} -> 2)
               /\ ghost.res.bytes = 3 =>
                      ghost.res.ins.arg = Decoded[2] + 256 * Decoded[3]
               /\ ghost.res.bytes = 2 =>
                      (ghost.res.ins.arg - Decoded[2]) % 256 = 0

C30_Witness ==
    /\ ghost.op = "decode" /\ ghost.at = 5 /\ ghost.res.ok
    /\ host.code[1] = 125 /\ host.code[4] = 101
    /\ ghost.res.ins = [op |-> "Adc", mode |-> "IndirectY", arg |-> 253, cycles |-> 5]
    /\ host.offset = 7

(***************************************************************************)
(* Pending interrupts: the emulator running a program that sets up the     *)
(* stack, enables the keyboard interrupt and then loops on a JMP to        *)
(* itself, with or without a SEI ... CLI around the enable, while the host *)
(* presses a key at any moment.  The host keeps calling step as long as it *)
(* can (weak fairness), up to MaxSteps calls.                              *)
(***************************************************************************)
\* LDX #$FF, TXS, LDA #$81, STA $FE4E, JMP $C008; and
\* LDX #$FF, TXS, SEI, LDA #$81, STA $FE4E, CLI, JMP $C00A.
PendingPrograms ==
    {<<162, 255, 154, 169, 129, 141, 78, 254, 76, 8, 192>>,
     <<162, 255, 154, 120, 169, 129, 141, 78, 254, 88, 76, 10, 192>>}

InitPending ==
    /\ \E program \in PendingPrograms, build \in Builds :
           LET placed == place_rom_at(with_hw_ranges(MapNew, <<HwWindow>>),
                                      OS_ROM_START, OsRom(program))
               started == CpuInitialize(CpuNew, placed)
           IN  /\ mem = started.m
               /\ cpu = started.cpu
               /\ emu = [result |-> "none", cycles |-> 0, irq |-> FALSE,
                         build |-> build]
    /\ via = SystemNew
    /\ crtc = CrtcNew
    /\ host = [steps |-> 0, keys |-> 0, cleared |-> FALSE]
    /\ ghost = [op |-> "new", defined |-> TRUE, mark |-> None, via_saw |-> <<>>,
                crtc_saw |-> <<>>, irq |-> FALSE, pre |-> cpu.registers,
                marked |-> FALSE]

NextPending ==
    \/ Step
    \/ \E k \in Keys : KeyDown(k)

\* The host has called step: the steps of Step, told by its guard and by
\* the call counter, which no other action advances.
StepCalled ==
    /\ host.steps < MaxSteps
    /\ emu.result \notin {"panic", "hang"}
    /\ cpu.registers.pc + 4 <= MEM_SIZE
    /\ host' = [host EXCEPT !.steps = host.steps + 1]

SpecPending == InitPending /\ [][NextPending]_vars /\ WF_host(StepCalled)

\* I is clear and some source is both flagged and enabled.
InterruptPending ==
    /\ ~cpu.registers.status.interrupt
    /\ BitAnd(BitAnd(FlagsOf(via.registers.interrupts),
                     EnabledOf(via.registers.interrupts)), 127) # 0

C32_RequestShowsItsSource ==
    (ghost.op = "step" /\ ghost.irq) =>
        BitAnd(BitAnd(MemByte(mem.bytes, IFR_REGISTER),
                      MemByte(mem.bytes, IER_REGISTER)), 127) # 0

(***************************************************************************)
(* Termination of the scan-out (under SpecCrtc).                           *)
(***************************************************************************)
\* C33: for every register state the CPU can program, also with
\* horizontal_displayed or vertical_displayed set to 0 after the scan-out has
\* started, Crtc6845::step(cycles) terminates, and each of its `cycles`
\* iterations renders at most one character cell.
C33_StepTerminates ==
    ghost.op = "step" =>
        /\ emu.result # "hang"
        /\ ghost.cells <= emu.cycles

(***************************************************************************)
(* Every instruction: Cpu::step applied to each opcode the decoder accepts, *)
(* with operand bytes that name the zero page pointer at 0x10 or lie at the *)
(* top of their range (0xf0, 0xfff0), index registers 0 or 0x20, the stack  *)
(* pointer in mid-page and D clear.                                         *)
(***************************************************************************)
InitExec ==
    /\ \E opcode \in {b \in 0..255 : OpInfo(b) # <<>>},
          operand \in {<<16, 0>>, <<240, 255>>}, acc \in {1, 255},
          x \in {0, 32}, y \in {0, 32}, build \in Builds :
           /\ mem = [with_hw_ranges(MapNew, <<HwWindow>>) EXCEPT !.bytes =
                         ImageAt(8192, <<opcode>> \o operand)
                             @@ ImageAt(16, <<240, 32>>)
                             @@ ImageAt(IRQ_VECTOR, <<0, 193>>)]
           /\ cpu = [registers |->
                         [RegistersNew EXCEPT !.pc = 8192, !.acc = acc, !.x = x, !.y = y,
                                              !.sp = 128]]
           /\ emu = [IdleEmu EXCEPT !.build = build]
    /\ via = SystemNew
    /\ crtc = CrtcNew
    /\ host = [ops |-> 0]
    /\ ghost = [op |-> "new", pre |-> RegistersNew, premem |-> MapNew,
                ins |-> decode_instruction(<<>>).ins, out |-> "ok", cycles |-> 0,
                taken |-> FALSE]

SpecExec == InitExec /\ [][CpuStepOp]_vars

\* C34: for every instruction decode_instruction accepts and every register
\* and memory state with D clear and a stack pointer that permits the
\* instruction's pushes and pops, execute_instruction returns a cycle count
\* instead of aborting, also for the store and read-modify-write addressing
\* modes the decoder produces (STX zero-page,Y) and for effective addresses
\* that wrap past 0xffff or past the end of the zero page.
C34_EveryInstructionExecutes ==
    (ghost.op = "step" /\ ghost.ins.op # "" /\ ~ghost.pre.status.decimal
         /\ ghost.out \notin {"StackOverflow", "StackUnderflow"})
        => ghost.out = "ok"

(***************************************************************************)
(* The teletext scan-out with the registers held fixed.  The controller    *)
(* starts programmed for teletext (control register 2, scanlines per       *)
(* character, rows, screen start) with register 1 selected and still zero; *)
(* the first step carries the write of horizontal_displayed host.H, every  *)
(* later step writes nothing.  host.ran counts the cycles stepped.         *)
(***************************************************************************)
InitScanout ==
    /\ mem = with_hw_ranges(MapNew, <<HwWindow>>)
    /\ cpu = CpuNew
    /\ via = SystemNew
    /\ \E V \in {1, 2}, S \in {0, 1}, lo \in {0, 252} :
           crtc = [CrtcNew EXCEPT !.registers[TOTAL_VERT_DISP] = V,
                                  !.registers[SCANLINES_PER_CHAR] = S,
                                  !.registers[SCREEN_START_HI] = 43,
                                  !.registers[SCREEN_START_LO] = lo,
                                  !.selected_reg = Some(TOTAL_HORIZ_DISP),
                                  !.video_control_reg = 2]
    /\ \E build \in Builds : emu = [IdleEmu EXCEPT !.build = build]
    /\ \E H \in {1, 2} : host = [ops |-> 0, ran |-> 0, H |-> H]
    /\ ghost = [op |-> "new", pre |-> CrtcNew]

\* Crtc6845::step for `cycles` cycles.
ScanoutStep(cycles) ==
    /\ host.ran + cycles <= MaxScanCycles
    /\ emu.result \notin {"panic", "hang"}
    /\ \E m \in {IF host.ops = 0
                 THEN MapWrite(mem, CRTC_DATA_REG, host.H)
                 ELSE mem} :
           /\ \E r \in {CrtcStep(crtc, m, cycles, emu.build)} :
                  /\ crtc' = r.crtc
                  /\ emu' = [emu EXCEPT !.result = r.out, !.cycles = cycles]
           /\ mem' = clear_last_hw_access(m)
    /\ ghost' = [op |-> "step", pre |-> crtc]
    /\ host' = [host EXCEPT !.ops = host.ops + 1, !.ran = host.ran + cycles]
    /\ UNCHANGED <<cpu, via>>

NextScanout == \E n \in 1..3 : ScanoutStep(n)

SpecScanout == InitScanout /\ [][NextScanout]_vars

\* The number of cells of one frame: H * (S + 1) * V.
FrameCells ==
    crtc.registers[TOTAL_HORIZ_DISP] * (crtc.registers[SCANLINES_PER_CHAR] + 1)
        * crtc.registers[TOTAL_VERT_DISP]

\* The index within its frame of the cell rendered by the last cycle.
LastCell == (host.ran - 1) % FrameCells

\* The state after rendering cell number i of a frame in the order rows,
\* scanlines, columns, row r being fetched from A + r * H.
AfterCell(i) ==
    LET H == crtc.registers[TOTAL_HORIZ_DISP]
        S == crtc.registers[SCANLINES_PER_CHAR]
        r == i \div (H * (S + 1))
    IN  DisplayingLine(StartAddress + r * H, r, (i % H) + 1, (i % (H * (S + 1))) \div H)

TimerCycles == {2, 7, 150000, TIMER_FREQ - 1}

InitTimer ==
    /\ mem = with_hw_ranges(MapNew, <<HwWindow>>)
    /\ cpu = CpuNew
    /\ via = SystemNew
    /\ crtc = CrtcNew
    /\ emu = IdleEmu
    /\ host = [ops |-> 0, ran |-> 0, expiries |-> 0]
    /\ ghost = [op |-> "new", timed |-> FALSE]

\* The timer branch of a step that starts in v signals Timer1.
TimerSignals(v, cycles) ==
    LET v1 == [v EXCEPT !.timer_count = v.timer_count + cycles]
    IN  bit_is_set(TimerExpiry(v1).registers.interrupts.signalled, Timer1)

TimerStep(cycles) ==
    /\ host.ops < MaxTimerSteps
    /\ \E r \in {ViaStep(via, mem, cycles)} :
           /\ via' = r.via
           /\ mem' = clear_last_hw_access(r.mem)
    /\ ghost' = [op |-> "step", timed |-> TimerSignals(via, cycles)]
    /\ host' = [ops |-> host.ops + 1, ran |-> host.ran + cycles,
                expiries |-> host.expiries
                                 + (IF TimerSignals(via, cycles) THEN 1 ELSE 0)]
    /\ UNCHANGED <<cpu, crtc, emu>>

NextTimer == \E c \in TimerCycles : TimerStep(c)

SpecTimer == InitTimer /\ [][NextTimer]_vars

\* C36: for the timer period P and any sequence of steps each shorter than P
\* cycles totalling N cycles, the number of timer expiries signalled so far is
\* floor(N / P) and the residual counter at the end of every step equals
\* N mod P (hence < P): overshoot cycles are carried into the next period.
C36_TimerCarriesOvershoot ==
    /\ host.expiries = host.ran \div TIMER_FREQ
    /\ via.timer_count = host.ran % TIMER_FREQ
    /\ via.timer_count < TIMER_FREQ
    /\ via.cycles_elapsed = host.ran

\* Two expiries, the second one in a step that overshoots the period: the
\* overshoot (and nothing else) is left in the counter.
C36_Witness ==
    /\ ghost.op = "step"
    /\ ghost.timed
    /\ host.expiries = 2
    /\ via.timer_count > 0
    /\ via.timer_count = host.ran - 2 * TIMER_FREQ

\* The operand the last instruction read.
OperandRead == read_mem(ghost.ins, ghost.premem, ghost.pre, emu.build).val

\* The register a compare instruction compares.
ComparedRegister ==
    CASE ghost.ins.op = "Cpx" -> ghost.pre.x
      [] ghost.ins.op = "Cpy" -> ghost.pre.y
      [] OTHER -> ghost.pre.acc

\* C37: CMP, CPX and CPY compare register R with operand M without changing
\* R: afterwards carry = (R >= M), zero = (R = M) and negative = bit 7 of
\* (R - M) mod 256.
C37_CompareFlags ==
    (ghost.op = "step" /\ ghost.ins.op \in {"Cmp", "Cpx", "Cpy"} /\ ghost.out = "ok") =>
        /\ cpu.registers.acc = ghost.pre.acc
        /\ cpu.registers.x = ghost.pre.x
        /\ cpu.registers.y = ghost.pre.y
        /\ cpu.registers.status.carry = (ComparedRegister >= OperandRead)
        /\ cpu.registers.status.zero = (ComparedRegister = OperandRead)
        /\ cpu.registers.status.negative =
               ((ComparedRegister - OperandRead + 256) % 256 >= 128)

\* The result of shifting or rotating M with carry-in c on the 6502.
ShiftedValue(op, M, c) ==
    CASE op = "Asl" -> (M * 2) % 256
      [] op = "Lsr" -> M \div 2
      [] op = "Rol" -> ((M * 2) % 256) + c
      [] OTHER -> (M \div 2) + 128 * c

\* The bit shifted out: old bit 7 for ASL and ROL, old bit 0 for LSR and ROR.
ShiftedOut(op, M) == IF op \in {"Asl", "Rol"} THEN M >= 128 ELSE M % 2 = 1

\* ROL followed by ROR gives back the operand and the carry.
RolRorRestores ==
    \A v \in 0..255, c \in BOOLEAN :
        /\ ModifiedValue("Ror", ModifiedValue("Rol", v, B2N(c)),
                         B2N(ModifiedCarry("Rol", v, c))) = v
        /\ ModifiedCarry("Ror", ModifiedValue("Rol", v, B2N(c)),
                         ModifiedCarry("Rol", v, c)) = c

\* C38: for ASL, LSR, ROL and ROR the carry afterwards is the bit shifted out
\* (old bit 7 for ASL/ROL, old bit 0 for LSR/ROR), ROL and ROR shift the old
\* carry into the vacated bit, ASL and LSR shift in 0, Z and N reflect the
\* result, and ROL followed by ROR restores operand and carry.
C38_ShiftsAndRotates ==
    /\ RolRorRestores
    /\ (ghost.op = "step" /\ ghost.ins.op \in {"Asl", "Lsr", "Rol", "Ror"}
            /\ ghost.out = "ok") =>
           \E res \in {ShiftedValue(ghost.ins.op, OperandRead,
                                    B2N(ghost.pre.status.carry))} :
               /\ cpu.registers.status.carry = ShiftedOut(ghost.ins.op, OperandRead)
               /\ cpu.registers.status.zero = (res = 0)
               /\ cpu.registers.status.negative = (res >= 128)
               /\ ghost.ins.mode = "Accumulator" => cpu.registers.acc = res

(***************************************************************************)
(* Interrupt entry and return.  The program at 0x2000 is NOPs, the IRQ     *)
(* vector points at 0xc100, and the handler there is either a single RTI   *)
(* or PHA, PLA, RTI.  Cpu::interrupt_request and Cpu::step are called in   *)
(* any order.  host.before holds the registers from immediately before the *)
(* last interrupt taken and host.inside whether its handler has yet to     *)
(* return; ghost.inside is host.inside at the start of the last call.      *)
(***************************************************************************)
Handlers == {<<64>>, <<72, 104, 64>>}

InitHandler ==
    /\ \E handler \in Handlers, sp \in {2, 3, 128, 255},
          status \in [{"negative", "overflow", "brk", "decimal", "interrupt",
                       "zero", "carry"} -> BOOLEAN] :
           /\ mem = [with_hw_ranges(MapNew, <<HwWindow>>) EXCEPT !.bytes =
                         ImageAt(8192, <<234, 234, 234, 234>>)
                             @@ ImageAt(49408, handler)
                             @@ ImageAt(IRQ_VECTOR, <<0, 193>>)]
           /\ cpu = [registers |->
                         [RegistersNew EXCEPT !.pc = 8192, !.acc = 128, !.sp = sp,
                                              !.status = status]]
    /\ \E build \in Builds : emu = [IdleEmu EXCEPT !.build = build]
    /\ via = SystemNew
    /\ crtc = CrtcNew
    /\ host = [ops |-> 0, before |-> RegistersNew, inside |-> FALSE]
    /\ ghost = [op |-> "new", pre |-> RegistersNew, ins |-> decode_instruction(<<>>).ins,
                out |-> "ok", taken |-> FALSE, inside |-> FALSE]

\* Cpu::interrupt_request
HandlerInterrupt ==
    /\ host.ops < MaxHandlerOps
    /\ emu.result \notin {"panic", "StackOverflow", "StackUnderflow"}
    /\ \E r \in {interrupt_request(cpu, mem)} :
           /\ cpu' = r.cpu
           /\ mem' = r.m
           /\ emu' = [emu EXCEPT !.result = r.out, !.cycles = 0]
           /\ ghost' = [op |-> "irq", pre |-> cpu.registers,
                        ins |-> decode_instruction(<<>>).ins, out |-> r.out,
                        taken |-> r.taken, inside |-> host.inside]
           /\ host' = [ops |-> host.ops + 1,
                       before |-> IF r.taken THEN cpu.registers ELSE host.before,
                       inside |-> host.inside \/ r.taken]
    /\ UNCHANGED <<via, crtc>>

\* Cpu::step on the instruction at pc.
HandlerStep ==
    /\ host.ops < MaxHandlerOps
    /\ emu.result \notin {"panic", "StackOverflow", "StackUnderflow"}
    /\ \E r \in {CpuStep(cpu, mem, InstructionRegion(mem, cpu.registers.pc), emu.build)},
          ins \in {decode_instruction(InstructionRegion(mem, cpu.registers.pc)).ins} :
           /\ cpu' = r.cpu
           /\ mem' = r.m
           /\ emu' = [emu EXCEPT !.result = r.out, !.cycles = r.cycles]
           /\ ghost' = [op |-> "step", pre |-> cpu.registers, ins |-> ins,
                        out |-> r.out, taken |-> FALSE, inside |-> host.inside]
           /\ host' = [host EXCEPT !.ops = host.ops + 1,
                                   !.inside = host.inside
                                                  /\ ~(ins.op = "Rti" /\ r.out = "ok")]
    /\ UNCHANGED <<via, crtc>>

NextHandler ==
    \/ HandlerInterrupt
    \/ HandlerStep

SpecHandler == InitHandler /\ [][NextHandler]_vars

\* Packing then unpacking the status is the identity on the seven flags, and
\* the packed byte has bit 5 set.
PackUnpackIdentity ==
    \A f \in [{"negative", "overflow", "brk", "decimal", "interrupt", "zero", "carry"}
                  -> BOOLEAN] :
        /\ UnpackStatus(PackStatus(f)) = f
        /\ bit_is_set(PackStatus(f), 5)

\* The last call was the RTI of a handler entered by an interrupt, executed
\* with the stack pointer the entry left.
ReturnedFromInterrupt ==
    /\ ghost.op = "step" /\ ghost.ins.op = "Rti" /\ ghost.out = "ok"
    /\ ghost.inside
    /\ host.before.sp >= 3
    /\ ghost.pre.sp = host.before.sp - 3

\* C39: if an interrupt is taken (sp >= 3) and the handler later executes RTI
\* with the stack balanced, then pc, sp and all seven status flags (with I
\* clear again) are those from immediately before the interrupt; packing then
\* unpacking the status is the identity on the seven flags and the packed byte
\* always has bit 5 set.
C39_InterruptThenRtiRestores ==
    /\ PackUnpackIdentity
    /\ (ghost.op = "irq" /\ ghost.taken) =>
           bit_is_set(MemByte(mem.bytes, STACK_BOTTOM + ghost.pre.sp - 2), 5)
    /\ ReturnedFromInterrupt =>
           /\ cpu.registers.pc = host.before.pc
           /\ cpu.registers.sp = host.before.sp
           /\ cpu.registers.status = host.before.status
           /\ ~cpu.registers.status.interrupt

\* The handler PHA, PLA, RTI has returned to a program interrupted with the
\* negative, overflow, decimal and carry flags set and B clear.
C39_Witness ==
    /\ ReturnedFromInterrupt
    /\ ghost.pre.pc = 49410
    /\ host.before.status.negative /\ host.before.status.overflow
    /\ host.before.status.decimal /\ host.before.status.carry
    /\ ~host.before.status.brk /\ ~host.before.status.zero
    /\ cpu.registers = host.before

(***************************************************************************)
(* debugger::Backend around an emulator.  The wrapped emulator is the type *)
(* parameter T: all the backend sees of it is whether a step succeeds and  *)
(* the program counter afterwards, so it is a counter pc that a successful *)
(* step moves to the next of EmulatorPcs addresses.                        *)
(*                                                                         *)
(* host is the Backend and its two channels: state, breakpoints,           *)
(* active_breakpoint, the commands in `incoming`, whether the listener     *)
(* thread still holds the sending end (connected), the wrapped emulator's  *)
(* pc, the number of commands received, and in markers the StreamStart and *)
(* StreamEnd responses put on `outgoing` so far, each with the command     *)
(* ("Step" or "Print") it was sent for.  ghost describes the last call of  *)
(* Backend::step: the state it started in (pre), the command it consumed   *)
(* (cmd, None if the queue was empty), everything it sent, what it         *)
(* returned and whether it stepped the wrapped emulator.  The sender       *)
(* thread is taken to keep its receiving end open.                         *)
(***************************************************************************)
EmulatorPcs == 3

DebuggerStop == [tag |-> "Stop", num |-> 0]

DebuggerRun == [tag |-> "Run", num |-> 0]

DebuggerStep(num) == [tag |-> "Step", num |-> num]

DebuggerCmd(tag, arg) == [tag |-> tag, arg |-> arg]

DebuggerCmds ==
    {DebuggerCmd("Step", n) : n \in 0..MaxStepArg}
        \cup {DebuggerCmd("Continue", 0), DebuggerCmd("Restart", 0),
              DebuggerCmd("RequestPage", 0), DebuggerCmd("BreakPoint", 1),
              DebuggerCmd("RequestCpuState", 0), DebuggerCmd("Print", 1)}

\* A response with the command it was sent for.
Response(tag, for) == <<tag, for>>

\* Backend::new
BackendNew ==
    [state |-> DebuggerStop, incoming |-> <<>>, connected |-> TRUE,
     breakpoints |-> {}, active_breakpoint |-> None, pc |-> 0, received |-> 0,
     markers |-> <<>>]

\* process_debugger_queue: ok is FALSE for None (the channel is empty and
\* disconnected); sent are the responses it put on `outgoing`.
process_debugger_queue(b) ==
    IF b.incoming = <<>>
    THEN [ok |-> b.connected, backend |-> b, sent |-> <<>>, cmd |-> None]
    ELSE
    LET s == Head(b.incoming)
        b1 == [b EXCEPT !.incoming = Tail(b.incoming)]
    IN  CASE s.tag = "Step" ->
                 [ok |-> TRUE,
                  backend |-> [b1 EXCEPT !.state = DebuggerStep(s.arg),
                                         !.active_breakpoint = None],
                  sent |-> <<Response("StreamStart", "Step")>>, cmd |-> Some(s)]
          [] s.tag = "Continue" ->
                 [ok |-> TRUE,
                  backend |-> [b1 EXCEPT !.state = DebuggerRun,
                                         !.active_breakpoint = None],
                  sent |-> <<>>, cmd |-> Some(s)]
          [] s.tag = "RequestPage" ->
                 [ok |-> TRUE, backend |-> b1,
                  sent |-> <<Response("Page", "RequestPage")>>, cmd |-> Some(s)]
          [] s.tag = "BreakPoint" ->
                 [ok |-> TRUE,
                  backend |-> [b1 EXCEPT !.breakpoints = b.breakpoints \cup {s.arg}],
                  sent |-> <<Response("Message", "BreakPoint")>>, cmd |-> Some(s)]
          [] s.tag = "RequestCpuState" ->
                 [ok |-> TRUE, backend |-> b1,
                  sent |-> <<Response("CpuState", "RequestCpuState")>>, cmd |-> Some(s)]
          [] s.tag = "Print" ->
                 [ok |-> TRUE, backend |-> b1,
                  sent |-> <<Response("StreamStart", "Print")>>
                               \o [i \in 1..s.arg |-> Response("Message", "Print")]
                               \o <<Response("StreamEnd", "Print")>>,
                  cmd |-> Some(s)]
          [] OTHER -> [ok |-> TRUE, backend |-> b1, sent |-> <<>>, cmd |-> Some(s)]

\* The end of Backend::step once the wrapped emulator has been stepped in Run
\* state (lines 198-205).
BreakpointCheck(b) ==
    IF b.pc \in b.breakpoints
    THEN [backend |-> [b EXCEPT !.active_breakpoint = Some(b.pc),
                                !.state = DebuggerStop],
          sent |-> <<Response("Message", "Breakpoint")>>]
    ELSE [backend |-> b, sent |-> <<>>]

\* Backend::step.  outcome is what the wrapped emulator's step (and the decode
\* of send_current_instruction) gives should it be called: "ok" or "error".
backend_step(b, outcome) ==
    LET q == process_debugger_queue(b)
        c == q.backend
        stepped == [c EXCEPT !.pc = (c.pc + 1) % EmulatorPcs]
    IN  IF ~q.ok
        THEN [result |-> "Exit", backend |-> c, sent |-> q.sent, advanced |-> FALSE,
              cmd |-> q.cmd]
        ELSE CASE c.state.tag = "Stop" ->
                      [result |-> "Paused", backend |-> c, sent |-> q.sent,
                       advanced |-> FALSE, cmd |-> q.cmd]
               [] c.state.tag = "Step" /\ c.state.num = 0 ->
                      [result |-> "Paused",
                       backend |-> [c EXCEPT !.state = DebuggerStop],
                       sent |-> q.sent \o <<Response("StreamEnd", "Step")>>,
                       advanced |-> FALSE, cmd |-> q.cmd]
               [] c.state.tag = "Step" /\ c.state.num > 0 ->
                      IF outcome = "error"
                      THEN [result |-> "Err", backend |-> c, sent |-> q.sent,
                            advanced |-> FALSE, cmd |-> q.cmd]
                      ELSE [result |-> "Progressed",
                            backend |-> [stepped EXCEPT !.state =
                                             DebuggerStep(c.state.num - 1)],
                            sent |-> q.sent \o <<Response("Instruction", "Step")>>,
                            advanced |-> TRUE, cmd |-> q.cmd]
               [] OTHER ->
                      IF IsSome(c.active_breakpoint)
                      THEN [result |-> "Paused", backend |-> c, sent |-> q.sent,
                            advanced |-> FALSE, cmd |-> q.cmd]
                      ELSE IF outcome = "error"
                      THEN [result |-> "Err", backend |-> c, sent |-> q.sent,
                            advanced |-> FALSE, cmd |-> q.cmd]
                      ELSE [result |-> "Progressed",
                            backend |-> BreakpointCheck(stepped).backend,
                            sent |-> q.sent \o BreakpointCheck(stepped).sent,
                            advanced |-> TRUE, cmd |-> q.cmd]

IsStreamMarker(r) == r[1] \in {"StreamStart", "StreamEnd"}

InitBackend ==
    /\ mem = with_hw_ranges(MapNew, <<HwWindow>>)
    /\ cpu = CpuNew
    /\ via = SystemNew
    /\ crtc = CrtcNew
    /\ emu = IdleEmu
    /\ host = BackendNew
    /\ ghost = [op |-> "new", pre |-> DebuggerStop, cmd |-> None, sent |-> <<>>,
                result |-> "none", advanced |-> FALSE]

\* The listener thread passes on a command read from stdin.
ListenerSend(cmd) ==
    /\ host.connected
    /\ host.received < MaxCommands
    /\ ghost.result \notin {"Exit", "Err"}
    /\ host' = [host EXCEPT !.incoming = Append(host.incoming, cmd),
                            !.received = host.received + 1]
    /\ ghost' = [ghost EXCEPT !.op = "send"]
    /\ UNCHANGED <<mem, cpu, via, crtc, emu>>

\* The listener thread returns (a read from stdin failed) and drops its end
\* of the channel.
ListenerEnds ==
    /\ host.connected
    /\ ghost.result \notin {"Exit", "Err"}
    /\ host' = [host EXCEPT !.connected = FALSE]
    /\ ghost' = [ghost EXCEPT !.op = "end"]
    /\ UNCHANGED <<mem, cpu, via, crtc, emu>>

\* One call of Backend::step by the main loop, which goes on calling it until
\* it returns Exit or an error.
BackendStepOp ==
    /\ ghost.result \notin {"Exit", "Err"}
    /\ \E outcome \in {"ok", "error"} :
           \E r \in {backend_step(host, outcome)} :
               /\ host' = [r.backend EXCEPT !.markers =
                               host.markers \o SelectSeq(r.sent, IsStreamMarker)]
               /\ ghost' = [op |-> "step", pre |-> host.state, cmd |-> r.cmd,
                            sent |-> r.sent, result |-> r.result,
                            advanced |-> r.advanced]
    /\ UNCHANGED <<mem, cpu, via, crtc, emu>>

NextBackend ==
    \/ \E cmd \in DebuggerCmds : ListenerSend(cmd)
    \/ ListenerEnds
    \/ BackendStepOp

SpecBackend == InitBackend /\ [][NextBackend]_vars /\ WF_vars(BackendStepOp)

\* A StreamStart sent for a Step command is the last stream marker sent.
StepStreamOpen ==
    /\ host.markers # <<>>
    /\ host.markers[Len(host.markers)] = Response("StreamStart", "Step")

\* In the markers sent so far every StreamStart sent for a Step command is
\* followed, if by anything, by a StreamEnd, and that StreamEnd by no second
\* one.
StreamsAlternate ==
    \A i \in 1..(Len(host.markers) - 1) :
        /\ host.markers[i] = Response("StreamStart", "Step")
               => host.markers[i + 1][1] = "StreamEnd"
        /\ host.markers[i][1] = "StreamEnd" => host.markers[i + 1][1] = "StreamStart"

\* The call that sends the StreamEnd of a Step run leaves the backend in Stop
\* and returns Paused without stepping the emulator, and so does every call
\* that starts in Stop and consumes neither Step nor Continue.
PausedWhenStopped ==
    ghost.op = "step" =>
        /\ (\E i \in DOMAIN ghost.sent : ghost.sent[i] = Response("StreamEnd", "Step"))
               => /\ host.state = DebuggerStop
                  /\ ghost.result = "Paused"
                  /\ ~ghost.advanced
        /\ (/\ ghost.pre = DebuggerStop
            /\ ghost.result # "Exit"
            /\ ~(IsSome(ghost.cmd) /\ Unwrap(ghost.cmd).tag \in {"Step", "Continue"}))
               => /\ host.state = DebuggerStop
                  /\ ghost.result = "Paused"
                  /\ ~ghost.advanced

\* The main loop has stopped calling Backend::step.
RunEnded == ghost.result \in {"Exit", "Err"}

\* C40: for every sequence of commands on the command queue (one consumed per
\* step call, also while a Step(N) run is in progress), every StreamStart sent
\* for a Step command is eventually followed by exactly one StreamEnd before
\* any further StreamStart, and when that StreamEnd is sent the backend is in
\* Stop state and returns Paused without advancing the wrapped emulator until
\* the next Step or Continue command.
C40_StepStreamsAreClosed ==
    /\ [](StreamsAlternate /\ PausedWhenStopped)
    /\ (StepStreamOpen ~> (~StepStreamOpen \/ RunEnded))

====
